---- MODULE Spec2Model ----
(***************************************************************************)
(* A model of agno's AgentMemory (libs/agno/agno/memory/agent.py) and of   *)
(* the FastAPI router (libs/agno/agno/app/fastapi/sync_router.py).         *)
(*                                                                         *)
(* Python values are represented as follows.                               *)
(*   Optional[T]   a sequence of length <= 1: None is <<>>, a value v is   *)
(*                 <<v>>                                                   *)
(*   List[T]       a sequence                                              *)
(*   str           a string, except the classifier's answer, which is a    *)
(*                 sequence of one-character strings so that str.lower()   *)
(*                 is computed character by character                      *)
(*   an object     a record of the fields the modelled code reads          *)
(*                                                                         *)
(* The module holds several specifications over the same variables, one    *)
(* per group of operations:                                                *)
(*   SpecRuns   add_run on the run list                                    *)
(*   SpecQuery  get_messages_from_last_n_runs and get_message_pairs        *)
(*   SpecMsgs   add_system_message, add_messages and get_tool_calls        *)
(*   Spec       update_memory, should_update_memory, load_user_memories    *)
(*   SpecLoad     load_user_memories from every configuration              *)
(*   SpecSummary  update_summary                                           *)
(*   SpecSession  all of the above operations and clear on one memory      *)
(*   SpecCopy     __deepcopy__ and the operations on the two objects       *)
(*   SpecRouter   POST /runs: the selector, entity and input checks        *)
(*   SpecFiles    POST /runs: valid requests with attachments              *)
(*   SpecStream   the streamers of a streaming response and their consumer *)
(*   SpecEquiv    update_memory and should_update_memory against their     *)
(*                suspendable variants                                     *)
(*   SpecAddRun   add_run on a memory that has messages, a summary and     *)
(*                memories                                                 *)
(*   SpecOrder    update_memory with a store, and user_id reassigned       *)
(*                between calls                                            *)
(*   SpecAsync    aupdate_memory and aupdate_summary interleaved at their  *)
(*                awaits                                                   *)
(*   SpecThreads  two POST /runs requests handled on two threads           *)
(* A specification leaves the variables of the other groups at their       *)
(* initial values.                                                         *)
(***************************************************************************)
EXTENDS Integers, Sequences, FiniteSets, TLC

VARIABLES
    runs,                             \* AgentMemory.runs
    messages,                         \* AgentMemory.messages
    update_system_message_on_change,  \* AgentMemory.update_system_message_on_change
    ret,                              \* the last call: its name, arguments, pre-state and result
    lastAdded,                        \* history variable: run id -> the run add_run stored last under it
    clean,                            \* history variable: see AddSystemMessage and AddMessages
    db,                               \* AgentMemory.db
    store,                            \* the rows the MemoryDb holds for the user, oldest first
    user_id,                          \* AgentMemory.user_id
    retrieval,                        \* AgentMemory.retrieval
    num_memories,                     \* AgentMemory.num_memories
    memories,                         \* AgentMemory.memories
    classifier,                       \* AgentMemory.classifier
    manager,                          \* AgentMemory.manager
    updating_memory,                  \* AgentMemory.updating_memory
    pc,                               \* per caller: where its update_memory call stands
    frame,                            \* per caller: the locals of its update_memory call
    summary,                          \* AgentMemory.summary
    summarizer,                       \* AgentMemory.summarizer
    heap,                             \* SpecCopy: the list objects, by address
    objs,                             \* SpecCopy: the AgentMemory objects, their fields by name
    agents,                           \* get_sync_router: the agents argument
    teams,                            \* get_sync_router: the teams argument
    workflows,                        \* get_sync_router: the workflows argument
    uuids,                            \* how many identifiers uuid4 has generated
    http,                             \* the last POST /runs request and its response
    response_stream                   \* the response stream being consumed: streamer, unit, consumer

runVars == <<runs, lastAdded>>
msgVars == <<messages, update_system_message_on_change, clean>>
cfgVars == <<db, user_id, retrieval, num_memories>>
memVars == <<db, store, user_id, retrieval, num_memories, memories, classifier, manager,
             updating_memory, pc, frame>>
sumVars == <<summary, summarizer>>
copyVars == <<heap, objs>>
routerVars == <<agents, teams, workflows, uuids, http, response_stream>>
vars == <<runs, lastAdded, messages, update_system_message_on_change, clean, ret,
          db, store, user_id, retrieval, num_memories, memories, classifier, manager,
          updating_memory, pc, frame, summary, summarizer, heap, objs,
          agents, teams, workflows, uuids, http, response_stream>>

(***************************************************************************)
(* Python values                                                           *)
(***************************************************************************)
None == <<>>

Some(v) == <<v>>

\* bool(x) of an Optional[str]: None and "" are falsy
StrTruthy(o) == o # None /\ o[1] # ""

\* bool(x) of an Optional[List]: None and [] are falsy
ListTruthy(o) == o # None /\ o[1] # <<>>

\* bool(x) of an Optional[int]: None and 0 are falsy
IntTruthy(o) == o # None /\ o[1] # 0

Min(S) == CHOOSE x \in S : \A y \in S : x <= y

Max(S) == CHOOSE x \in S : \A y \in S : x >= y

SeqsUpTo(S, n) == UNION {[1..k -> S] : k \in 0..n}

\* agno.models.message.Message, the fields agent.py reads
Msg(role, content, from_history, tool_calls) ==
    [role |-> role, content |-> content, from_history |-> from_history, tool_calls |-> tool_calls]

(***************************************************************************)
(* The memory fields of AgentMemory as declared, and the callers           *)
(***************************************************************************)
\* the callers of update_memory; the single-threaded specifications run the first
Tasks == {"t1", "t2"}

SyncTasks == {"t1"}

\* the locals of a caller that has made no call yet
NoFrame ==
    [input |-> [type |-> "NoneType", value |-> ""], force |-> FALSE, answer |-> None,
     response |-> None, trace |-> <<>>, before |-> None, should_update_memory |-> None]

\* the defaults of the fields: db, user_id, memories, num_memories, classifier, manager
\* are None, retrieval is MemoryRetrieval.last_n, updating_memory is False
InitMemVars ==
    /\ db = None
    /\ store = <<>>
    /\ user_id = None
    /\ retrieval = "last_n"
    /\ num_memories = None
    /\ memories = None
    /\ classifier = None
    /\ manager = None
    /\ updating_memory = FALSE
    /\ pc = [t \in Tasks |-> "idle"]
    /\ frame = [t \in Tasks |-> NoFrame]

\* summary and summarizer are None by default
InitSumVars ==
    /\ summary = None
    /\ summarizer = None

\* no AgentMemory has been duplicated
InitCopyVars ==
    /\ heap = <<>>
    /\ objs = <<>>

\* no router has been built and no stream is open
InitRouterVars ==
    /\ agents = None
    /\ teams = None
    /\ workflows = None
    /\ uuids = 0
    /\ http = [op |-> "none"]
    /\ response_stream = [pc |-> "none"]

(***************************************************************************)
(* AgentRun and AgentMemory.add_run                                        *)
(***************************************************************************)
\* RunResponse, the fields agent.py reads: run_id is Optional[str], messages Optional[List[Message]]
RunResponse(run_id, msgs) == [run_id |-> run_id, messages |-> msgs]

\* AgentRun: response is Optional[RunResponse]
AgentRun(response) == [response |-> response]

\* for i, run in enumerate(self.runs): if run.response and run.response.run_id == run_id
IndicesWithRunId(rs, run_id) ==
    {i \in 1..Len(rs) : rs[i].response # None /\ rs[i].response[1].run_id = run_id}

\* a slip add_run could make: append without looking for a stored run of the same id
add_run_always_appends(rs, agent_run) ==
    IF agent_run.response # None /\ StrTruthy(agent_run.response[1].run_id)
    THEN Append(rs, agent_run)
    ELSE rs

\* a slip add_run could make: drop the stored run of the same id and append the new one
add_run_moves_to_end(rs, agent_run) ==
    IF agent_run.response # None /\ StrTruthy(agent_run.response[1].run_id)
    THEN LET run_id == agent_run.response[1].run_id
             hits == IndicesWithRunId(rs, run_id)
         IN  IF hits # {}
             THEN Append(SubSeq(rs, 1, Min(hits) - 1) \o SubSeq(rs, Min(hits) + 1, Len(rs)), agent_run)
             ELSE Append(rs, agent_run)
    ELSE rs

\* AgentMemory.add_run: the run list afterwards
add_run(rs, agent_run) ==
    IF agent_run.response # None /\ StrTruthy(agent_run.response[1].run_id)
    THEN LET run_id == agent_run.response[1].run_id
             hits == IndicesWithRunId(rs, run_id)
         IN  IF hits # {}
             THEN [rs EXCEPT ![Min(hits)] = agent_run]
             ELSE Append(rs, agent_run)
    ELSE rs

(***************************************************************************)
(* SpecRuns: the run list under add_run                                    *)
(***************************************************************************)
MaxRuns == 3

RunIds == {"r1", "r2", "r3"}

\* the run identifiers a caller can pass: None, the empty string, or an identifier
RunIdArgs == {None, Some("")} \cup {Some(id) : id \in RunIds}

\* the message lists that tell two runs of the same identifier apart
RunPayloads ==
    {None,
     Some(<<Msg("user", "a", FALSE, <<>>)>>),
     Some(<<Msg("user", "a", FALSE, <<>>), Msg("assistant", "b", FALSE, <<>>)>>)}

AddRunArgs ==
    {AgentRun(None)} \cup
    {AgentRun(Some(RunResponse(id, p))) : id \in RunIdArgs, p \in RunPayloads}

NoCall == [op |-> "none"]

InitRunVars == runs = <<>> /\ lastAdded = [id \in RunIds |-> None]

InitMsgVars == messages = <<>> /\ update_system_message_on_change = FALSE /\ clean = TRUE

InitRuns == InitRunVars /\ InitMsgVars /\ InitMemVars /\ InitSumVars /\ InitCopyVars /\ InitRouterVars /\ ret = NoCall

AddRun(agent_run) ==
    /\ Len(add_run(runs, agent_run)) <= MaxRuns
    /\ runs' = add_run(runs, agent_run)
    /\ lastAdded' =
          IF agent_run.response # None /\ StrTruthy(agent_run.response[1].run_id)
          THEN [lastAdded EXCEPT ![agent_run.response[1].run_id[1]] = Some(agent_run)]
          ELSE lastAdded
    /\ ret' = [op |-> "add_run", agent_run |-> agent_run, before |-> runs]
    /\ UNCHANGED <<msgVars, memVars, sumVars, copyVars, routerVars>>

NextRuns == \E agent_run \in AddRunArgs : AddRun(agent_run)

SpecRuns == InitRuns /\ [][NextRuns]_vars

\* C1: after any sequence of add_run calls from the empty list, the run list holds at
\* most one run per run identifier, and the entry stored under an identifier is the
\* run that was added last with it (a run never added is not stored).
C1_OneRunPerId ==
    \A id \in RunIds :
        LET hits == IndicesWithRunId(runs, Some(id))
        IN  /\ Cardinality(hits) <= 1
            /\ (lastAdded[id] = None) <=> (hits = {})
            /\ \A i \in hits : runs[i] = lastAdded[id][1]

\* C1 witness: add_run was called with the identifier of a stored run and another
\* result, beside a second stored run
C1_Witness ==
    /\ ret.op = "add_run"
    /\ ret.agent_run.response # None
    /\ Len(ret.before) = 2
    /\ IndicesWithRunId(ret.before, ret.agent_run.response[1].run_id) # {}
    /\ \A i \in 1..Len(ret.before) : ret.before[i] # ret.agent_run
    /\ Len(runs) = 2

(***************************************************************************)
(* AgentMemory.add_system_message, add_messages, get_tool_calls            *)
(***************************************************************************)
\* the default of the parameter system_message_role
DefaultSystemRole == "system"

\* next((i for i, m in enumerate(self.messages) if m.role == system_message_role), None),
\* as a 1-based index
system_message_index(ms, system_message_role) ==
    LET hits == {i \in 1..Len(ms) : ms[i].role = system_message_role}
    IN  IF hits = {} THEN None ELSE Some(Min(hits))

\* a slip add_system_message could make: append where the code inserts at the front
add_system_message_appends(ms, on_change, message, system_message_role) ==
    IF Len(ms) = 0
    THEN Append(ms, message)
    ELSE LET system_message_index_ == system_message_index(ms, system_message_role)
         IN  IF system_message_index_ # None
             THEN IF ms[system_message_index_[1]].content # message.content /\ on_change
                  THEN [ms EXCEPT ![system_message_index_[1]] = message]
                  ELSE ms
             ELSE Append(ms, message)

\* a slip add_system_message could make: replace on changed content whatever the flag
add_system_message_ignores_flag(ms, on_change, message, system_message_role) ==
    IF Len(ms) = 0
    THEN Append(ms, message)
    ELSE LET system_message_index_ == system_message_index(ms, system_message_role)
         IN  IF system_message_index_ # None
             THEN IF ms[system_message_index_[1]].content # message.content
                  THEN [ms EXCEPT ![system_message_index_[1]] = message]
                  ELSE ms
             ELSE <<message>> \o ms

\* AgentMemory.add_system_message with a message that is not None: the history afterwards;
\* on_change is self.update_system_message_on_change
add_system_message(ms, on_change, message, system_message_role) ==
    IF Len(ms) = 0
    THEN Append(ms, message)
    ELSE LET system_message_index_ == system_message_index(ms, system_message_role)
         IN  IF system_message_index_ # None
             THEN IF ms[system_message_index_[1]].content # message.content /\ on_change
                  THEN [ms EXCEPT ![system_message_index_[1]] = message]
                  ELSE ms
             ELSE <<message>> \o ms

\* AgentMemory.add_messages: self.messages.extend(messages)
add_messages(ms, new) == ms \o new

\* the loops of get_tool_calls from message i (counted from the front, visited from the
\* back) and its j-th tool call on, with the calls collected so far
RECURSIVE scan_tool_calls(_, _, _, _, _)
scan_tool_calls(ms, i, j, tool_calls, num_calls) ==
    IF i = 0
    THEN tool_calls
    ELSE IF j > Len(ms[i].tool_calls)
         THEN scan_tool_calls(ms, i - 1, 1, tool_calls, num_calls)
         ELSE LET appended == Append(tool_calls, ms[i].tool_calls[j])
              IN  IF IntTruthy(num_calls) /\ Len(appended) >= num_calls[1]
                  THEN appended
                  ELSE scan_tool_calls(ms, i, j + 1, appended, num_calls)

\* AgentMemory.get_tool_calls; num_calls is Optional[int]
get_tool_calls(ms, num_calls) == scan_tool_calls(ms, Len(ms), 1, <<>>, num_calls)

(***************************************************************************)
(* SpecMsgs: the message history                                           *)
(***************************************************************************)
MaxHistory == 3

\* the values callers pass as system_message_role
SystemRoles == {DefaultSystemRole, "developer"}

\* the messages callers pass; Message.tool_calls is None or a list, both falsy when
\* empty, and <<>> stands for either
HistoryMessages ==
    {Msg(r, c, FALSE, <<>>) : r \in SystemRoles, c \in {"s1", "s2"}} \cup
    {Msg("user", "hi", FALSE, <<>>)} \cup
    {Msg("assistant", "ok", FALSE, t) : t \in {<<>>, <<"t1">>, <<"t2", "t3">>}}

NumCallsArgs == {None} \cup {Some(n) : n \in 0..MaxHistory}

InitMsgs ==
    /\ InitRunVars
    /\ messages = <<>>
    /\ update_system_message_on_change \in BOOLEAN
    /\ clean = TRUE
    /\ InitMemVars /\ InitSumVars /\ InitCopyVars /\ InitRouterVars
    /\ ret = NoCall

\* clean records that so far every add_system_message call named the default system
\* role and passed a message of that role, and no add_messages call passed one
AddSystemMessage(message, system_message_role) ==
    /\ Len(add_system_message(messages, update_system_message_on_change, message,
                              system_message_role)) <= MaxHistory
    /\ messages' = add_system_message(messages, update_system_message_on_change, message,
                                      system_message_role)
    /\ clean' = (clean /\ system_message_role = DefaultSystemRole
                       /\ message.role = DefaultSystemRole)
    /\ ret' = [op |-> "add_system_message", message |-> message,
               system_message_role |-> system_message_role, before |-> messages]
    /\ UNCHANGED <<runVars, update_system_message_on_change, memVars, sumVars, copyVars, routerVars>>

AddMessages(new) ==
    /\ messages' = add_messages(messages, new)
    /\ clean' = (clean /\ \A i \in 1..Len(new) : new[i].role # DefaultSystemRole)
    /\ ret' = [op |-> "add_messages", new |-> new, before |-> messages]
    /\ UNCHANGED <<runVars, update_system_message_on_change, memVars, sumVars, copyVars, routerVars>>

GetToolCalls(num_calls) ==
    /\ ret' = [op |-> "get_tool_calls", num_calls |-> num_calls,
               val |-> get_tool_calls(messages, num_calls)]
    /\ UNCHANGED <<runVars, msgVars, memVars, sumVars, copyVars, routerVars>>

NextMsgs ==
    \/ \E message \in HistoryMessages, system_message_role \in SystemRoles :
          AddSystemMessage(message, system_message_role)
    \/ \E new \in SeqsUpTo(HistoryMessages, MaxHistory - Len(messages)) : AddMessages(new)
    \/ \E num_calls \in NumCallsArgs : GetToolCalls(num_calls)

SpecMsgs == InitMsgs /\ [][NextMsgs]_vars

\* the indices of the history's messages of the default system role
SystemIndices == {i \in 1..Len(messages) : messages[i].role = DefaultSystemRole}

InsertCase ==
    /\ ret.op = "add_system_message"
    /\ \/ ret.before = <<>>
       \/ system_message_index(ret.before, ret.system_message_role) = None

\* C3: whenever add_system_message inserts its message, the message is at index 0 and
\* the messages stored before follow it in their previous order.
C3_InsertedAtFront == InsertCase => messages = <<ret.message>> \o ret.before

\* C3 witness: an insertion in front of two stored messages
C3_Witness == InsertCase /\ Len(ret.before) = 2 /\ messages[1] = ret.message

\* add_system_message found a stored message of the role it was called with
StoredCase ==
    /\ ret.op = "add_system_message"
    /\ ret.before # <<>>
    /\ system_message_index(ret.before, ret.system_message_role) # None

\* C4: when the history holds a system message, add_system_message overwrites it at its
\* index if the new content differs and update_system_message_on_change is set, and
\* leaves the history as it was in every other case.
C4_ReplacedOnlyOnChange ==
    StoredCase =>
        LET i == system_message_index(ret.before, ret.system_message_role)[1]
        IN  IF ret.before[i].content # ret.message.content /\ update_system_message_on_change
            THEN messages = [ret.before EXCEPT ![i] = ret.message]
            ELSE messages = ret.before

\* C4 witness: a stored system message, behind which others are stored, was overwritten
C4_Witness ==
    /\ StoredCase
    /\ Len(ret.before) >= 2
    /\ messages # ret.before
    /\ Len(messages) = Len(ret.before)

\* every tool call of the history, newest message first, each message's calls in order
RECURSIVE AllToolCallsNewestFirst(_)
AllToolCallsNewestFirst(ms) ==
    IF ms = <<>>
    THEN <<>>
    ELSE ms[Len(ms)].tool_calls \o AllToolCallsNewestFirst(SubSeq(ms, 1, Len(ms) - 1))

\* C8 as stated: for a given limit >= 0, get_tool_calls returns at most limit entries,
\* the newest first; without a limit it returns every tool call of the history.
C8_ToolCallsLimit ==
    ret.op = "get_tool_calls" =>
        LET all == AllToolCallsNewestFirst(messages)
        IN  IF ret.num_calls = None
            THEN ret.val = all
            ELSE /\ Len(ret.val) <= ret.num_calls[1]
                 /\ Len(ret.val) <= Len(all)
                 /\ ret.val = SubSeq(all, 1, Len(ret.val))

(***************************************************************************)
(* AgentMemory.get_messages_from_last_n_runs and get_message_pairs         *)
(***************************************************************************)
\* Python's s[start:] for any integer start
PySliceFrom(s, start) ==
    LET from == IF start < 0 THEN Max({Len(s) + start, 0}) ELSE Min({start, Len(s)})
    IN  SubSeq(s, from + 1, Len(s))

\* a slip the inner loop could make: the from_history test left out
collect_messages_keeps_history(msgs, skip_role) ==
    LET Keep(i) == ~(StrTruthy(skip_role) /\ msgs[i].role = skip_role[1])
        RECURSIVE upto(_)
        upto(i) == IF i = 0 THEN <<>>
                   ELSE IF Keep(i) THEN Append(upto(i - 1), msgs[i]) ELSE upto(i - 1)
    IN  upto(Len(msgs))

\* for message in run.response.messages: the messages the loop appends
RECURSIVE collect_messages(_, _)
collect_messages(msgs, skip_role) ==
    IF msgs = <<>>
    THEN <<>>
    ELSE LET message == Head(msgs)
             rest == collect_messages(Tail(msgs), skip_role)
         IN  IF StrTruthy(skip_role) /\ message.role = skip_role[1]
             THEN rest
             ELSE IF message.from_history
                  THEN rest
                  ELSE <<message>> \o rest

\* for run in runs_to_process: the messages the loops append
RECURSIVE collect_runs(_, _)
collect_runs(rs, skip_role) ==
    IF rs = <<>>
    THEN <<>>
    ELSE LET run == Head(rs)
             rest == collect_runs(Tail(rs), skip_role)
         IN  IF ~(run.response # None /\ ListTruthy(run.response[1].messages))
             THEN rest
             ELSE collect_messages(run.response[1].messages[1], skip_role) \o rest

\* AgentMemory.get_messages_from_last_n_runs; last_n is Optional[int], skip_role Optional[str]
get_messages_from_last_n_runs(rs, last_n, skip_role) ==
    IF rs = <<>>
    THEN <<>>
    ELSE LET runs_to_process == IF last_n = None THEN rs ELSE PySliceFrom(rs, -last_n[1])
         IN  collect_runs(runs_to_process, skip_role)

\* assistant_role = ["assistant", "model", "CHATBOT"] when the argument is None
DefaultAssistantRoles == <<"assistant", "model", "CHATBOT">>

\* role in assistant_role
InList(x, list) == \E i \in 1..Len(list) : list[i] = x

\* the forward loop of get_message_pairs: user_messages_from_run
RECURSIVE user_messages_from_run(_, _)
user_messages_from_run(msgs, user_role) ==
    IF msgs = <<>>
    THEN None
    ELSE LET message == Head(msgs)
         IN  IF message.from_history
             THEN user_messages_from_run(Tail(msgs), user_role)
             ELSE IF message.role = user_role
                  THEN Some(message)
                  ELSE user_messages_from_run(Tail(msgs), user_role)

\* a slip the second loop could make: scanning from the front like the first loop
RECURSIVE first_assistant_message(_, _)
first_assistant_message(msgs, assistant_role) ==
    IF msgs = <<>>
    THEN None
    ELSE LET message == Head(msgs)
         IN  IF message.from_history
             THEN first_assistant_message(Tail(msgs), assistant_role)
             ELSE IF InList(message.role, assistant_role)
                  THEN Some(message)
                  ELSE first_assistant_message(Tail(msgs), assistant_role)

\* the loop over messages[::-1] of get_message_pairs: assistant_messages_from_run
RECURSIVE assistant_messages_from_run(_, _)
assistant_messages_from_run(msgs, assistant_role) ==
    IF msgs = <<>>
    THEN None
    ELSE LET message == msgs[Len(msgs)]
             earlier == SubSeq(msgs, 1, Len(msgs) - 1)
         IN  IF message.from_history
             THEN assistant_messages_from_run(earlier, assistant_role)
             ELSE IF InList(message.role, assistant_role)
                  THEN Some(message)
                  ELSE assistant_messages_from_run(earlier, assistant_role)

\* for run in self.runs: runs_as_message_pairs
RECURSIVE runs_as_message_pairs(_, _, _)
runs_as_message_pairs(rs, user_role, assistant_role) ==
    IF rs = <<>>
    THEN <<>>
    ELSE LET run == Head(rs)
             rest == runs_as_message_pairs(Tail(rs), user_role, assistant_role)
         IN  IF run.response # None /\ ListTruthy(run.response[1].messages)
             THEN LET user == user_messages_from_run(run.response[1].messages[1], user_role)
                      assistant == assistant_messages_from_run(run.response[1].messages[1],
                                                               assistant_role)
                  IN  IF user # None /\ assistant # None
                      THEN <<<<user[1], assistant[1]>>>> \o rest
                      ELSE rest
             ELSE rest

\* AgentMemory.get_message_pairs; assistant_role is Optional[List[str]]
get_message_pairs(rs, user_role, assistant_role) ==
    runs_as_message_pairs(rs, user_role,
                          IF assistant_role = None THEN DefaultAssistantRoles
                          ELSE assistant_role[1])

(***************************************************************************)
(* SpecQuery: the two queries on every run list of a bounded size          *)
(***************************************************************************)
\* the size of a run list: its runs plus the messages of their responses
MaxSize == 5

\* the messages of a response: two user messages, two of assistant roles, and a user
\* and an assistant message replayed from history
QueryMessages ==
    {Msg("user", "hi", FALSE, <<>>), Msg("user", "ok", FALSE, <<>>),
     Msg("assistant", "hello", FALSE, <<>>), Msg("model", "hello", FALSE, <<>>),
     Msg("user", "old", TRUE, <<>>), Msg("assistant", "old", TRUE, <<>>)}

\* the run identifier of the i-th stored run
RunIdAt(i) == Some(<<"r1", "r2", "r3", "r4", "r5", "r6", "r7", "r8">>[i])

\* the i-th run of a list, of size w: without a response or without messages (w = 1),
\* or with w - 1 messages
RunsOfSize(i, w) ==
    IF w = 1
    THEN {AgentRun(None), AgentRun(Some(RunResponse(RunIdAt(i), None)))}
    ELSE {AgentRun(Some(RunResponse(RunIdAt(i), Some(msgs)))) : msgs \in [1..(w - 1) -> QueryMessages]}

\* the run lists of size <= s whose first run is the i-th
RECURSIVE RunListsFrom(_, _)
RunListsFrom(i, s) ==
    {<<>>} \cup
    UNION {{<<r>> \o rest : r \in RunsOfSize(i, w), rest \in RunListsFrom(i + 1, s - w)} :
           w \in 1..s}

LastNArgs == {None, Some(0), Some(1), Some(2)}

SkipRoleArgs == {None, Some("user"), Some("assistant")}

UserRoleArgs == {"user"}

\* None for the default, a single role, or a list that names the user role as well, with
\* which a run of one user message gives a pair
AssistantRoleArgs ==
    {None, Some(<<"assistant">>), Some(<<"model">>), Some(<<"assistant", "user">>)}

\* lastAdded is the history variable of SpecRuns and is not read here
InitQuery ==
    /\ runs \in RunListsFrom(1, MaxSize)
    /\ lastAdded = [id \in RunIds |-> None]
    /\ InitMsgVars
    /\ InitMemVars /\ InitSumVars /\ InitCopyVars /\ InitRouterVars
    /\ ret = NoCall

\* A query writes no field of the memory, so one query per behaviour reaches every
\* result: the guard ret = NoCall keeps later queries from retracing the same states.
GetMessagesFromLastNRuns(last_n, skip_role) ==
    /\ ret = NoCall
    /\ ret' = [op |-> "get_messages_from_last_n_runs", last_n |-> last_n,
               skip_role |-> skip_role,
               val |-> get_messages_from_last_n_runs(runs, last_n, skip_role)]
    /\ UNCHANGED <<runVars, msgVars, memVars, sumVars, copyVars, routerVars>>

GetMessagePairs(user_role, assistant_role) ==
    /\ ret = NoCall
    /\ ret' = [op |-> "get_message_pairs", user_role |-> user_role,
               assistant_role |-> assistant_role,
               val |-> get_message_pairs(runs, user_role, assistant_role)]
    /\ UNCHANGED <<runVars, msgVars, memVars, sumVars, copyVars, routerVars>>

NextQuery ==
    \/ \E last_n \in LastNArgs, skip_role \in SkipRoleArgs :
          GetMessagesFromLastNRuns(last_n, skip_role)
    \/ \E user_role \in UserRoleArgs, assistant_role \in AssistantRoleArgs :
          GetMessagePairs(user_role, assistant_role)

SpecQuery == InitQuery /\ [][NextQuery]_vars

\* the messages of a run's response, none when it has no response or no messages
MessagesOf(run) ==
    IF run.response = None \/ run.response[1].messages = None
    THEN <<>>
    ELSE run.response[1].messages[1]

\* some run holds a message replayed from history
SomeHistoryMessage ==
    \E i \in 1..Len(runs) : \E j \in 1..Len(MessagesOf(runs[i])) : MessagesOf(runs[i])[j].from_history

\* C5: no message flagged from_history is in the result of get_messages_from_last_n_runs,
\* whatever last_n and skip_role, and none is the user or the assistant message of a
\* pair get_message_pairs returns.
C5_NoHistoryMessage ==
    /\ ret.op = "get_messages_from_last_n_runs" =>
          \A i \in 1..Len(ret.val) : ~ret.val[i].from_history
    /\ ret.op = "get_message_pairs" =>
          \A i \in 1..Len(ret.val) : ~ret.val[i][1].from_history /\ ~ret.val[i][2].from_history

\* C5 witness: a query without a role filter over runs that hold history messages
\* returned messages
C5_Witness ==
    /\ ret.op = "get_messages_from_last_n_runs"
    /\ ret.last_n = None
    /\ ret.skip_role = None
    /\ SomeHistoryMessage
    /\ Len(ret.val) >= 2

\* the messages of the runs rs, in run order then in-run order, minus those of the role
\* skip_role and those replayed from history
RECURSIVE Flattened(_)
Flattened(rs) == IF rs = <<>> THEN <<>> ELSE Flattened(SubSeq(rs, 1, Len(rs) - 1)) \o MessagesOf(rs[Len(rs)])

Kept(msgs, skip_role) ==
    SelectSeq(msgs, LAMBDA m : ~m.from_history /\ (skip_role = None \/ m.role # skip_role[1]))

\* C6 as stated: for every given n >= 0, n = 0 and n beyond the number of runs included,
\* the result is exactly the messages of the last min(n, number of runs) runs in order,
\* minus the skipped role and the history messages; without n, those of all runs.
C6_LastNRuns ==
    ret.op = "get_messages_from_last_n_runs" =>
        LET k == IF ret.last_n = None THEN Len(runs) ELSE Min({ret.last_n[1], Len(runs)})
        IN  ret.val = Kept(Flattened(SubSeq(runs, Len(runs) - k + 1, Len(runs))), ret.skip_role)

\* the pair of a run: its first non-history message of the user role and its last
\* non-history message of an assistant role, when it has both
PairOf(run, user_role, roles) ==
    LET msgs == MessagesOf(run)
        users == {j \in 1..Len(msgs) : ~msgs[j].from_history /\ msgs[j].role = user_role}
        assistants == {j \in 1..Len(msgs) : ~msgs[j].from_history /\ InList(msgs[j].role, roles)}
    IN  IF users # {} /\ assistants # {}
        THEN <<<<msgs[Min(users)], msgs[Max(assistants)]>>>>
        ELSE <<>>

RECURSIVE PairsOf(_, _, _)
PairsOf(rs, user_role, roles) ==
    IF rs = <<>>
    THEN <<>>
    ELSE PairsOf(SubSeq(rs, 1, Len(rs) - 1), user_role, roles) \o PairOf(rs[Len(rs)], user_role, roles)

\* C7: get_message_pairs returns, in run order, for every run that has both, the pair of
\* its first non-history message of the user role and its last non-history message of a
\* role in the assistant-role set, and nothing for any other run.
C7_FirstUserLastAssistant ==
    ret.op = "get_message_pairs" =>
        ret.val = PairsOf(runs, ret.user_role,
                          IF ret.assistant_role = None THEN DefaultAssistantRoles
                          ELSE ret.assistant_role[1])

\* C7 witness: a run with two user messages around two assistant-role messages gave
\* the pair of the first user message and the later assistant-role message
C7_Witness ==
    /\ ret.op = "get_message_pairs"
    /\ ret.assistant_role = None
    /\ Len(runs) = 1
    /\ Len(MessagesOf(runs[1])) = 4
    /\ MessagesOf(runs[1])[1] = Msg("user", "hi", FALSE, <<>>)
    /\ MessagesOf(runs[1])[2] = Msg("assistant", "hello", FALSE, <<>>)
    /\ MessagesOf(runs[1])[3] = Msg("model", "hello", FALSE, <<>>)
    /\ MessagesOf(runs[1])[4] = Msg("user", "ok", FALSE, <<>>)
    /\ ret.val = <<<<MessagesOf(runs[1])[1], MessagesOf(runs[1])[3]>>>>

(***************************************************************************)
(* AgentMemory.load_user_memories                                          *)
(***************************************************************************)
Reverse(s) == [i \in 1..Len(s) |-> s[Len(s) + 1 - i]]

\* MemoryDb.read_memories(user_id, limit, sort) on the user's rows, kept oldest first:
\* the rows oldest first ("asc") or newest first ("desc"), the first limit of them
read_memories(rows, limit, sort) ==
    LET sorted == IF sort = "asc" THEN rows ELSE Reverse(rows)
    IN  IF limit = None THEN sorted ELSE SubSeq(sorted, 1, Min({limit[1], Len(sorted)}))

\* Memory.model_validate(row.memory): a Memory of the dict's "memory" entry, None for
\* the validation error of a dict without one
model_validate(row_memory) ==
    IF "memory" \in DOMAIN row_memory
    THEN Some([memory |-> row_memory.memory])
    ELSE None

\* a slip the row loop could make: give up the batch at the first row that fails
RECURSIVE validated_rows_stops_at_failure(_)
validated_rows_stops_at_failure(memory_rows) ==
    IF memory_rows = <<>>
    THEN <<>>
    ELSE LET validated == model_validate(Head(memory_rows).memory)
         IN  IF validated = None
             THEN <<>>
             ELSE <<validated[1]>> \o validated_rows_stops_at_failure(Tail(memory_rows))

\* for row in memory_rows: the memories the loop appends
RECURSIVE validated_rows(_)
validated_rows(memory_rows) ==
    IF memory_rows = <<>>
    THEN <<>>
    ELSE LET validated == model_validate(Head(memory_rows).memory)
         IN  (IF validated = None THEN <<>> ELSE <<validated[1]>>) \o validated_rows(Tail(memory_rows))

\* a slip load_user_memories could make: clear the memories before looking for the db
load_user_memories_clears_first(current, db_, retrieval_, num_memories_, rows, read_raises) ==
    IF db_ = None \/ retrieval_ \notin {"last_n", "first_n"} \/ read_raises
    THEN Some(<<>>)
    ELSE Some(validated_rows(read_memories(rows, num_memories_,
                                           IF retrieval_ = "first_n" THEN "asc" ELSE "desc")))

\* AgentMemory.load_user_memories: self.memories afterwards; read_raises says whether
\* db.read_memories raises. The NotImplementedError of any other retrieval is raised
\* inside the try block and caught by its `except Exception`.
load_user_memories(current, db_, retrieval_, num_memories_, rows, read_raises) ==
    IF db_ = None
    THEN current
    ELSE IF retrieval_ \notin {"last_n", "first_n"}
         THEN current
         ELSE IF read_raises
              THEN current
              ELSE Some(validated_rows(read_memories(rows, num_memories_,
                                                     IF retrieval_ = "first_n" THEN "asc" ELSE "desc")))

\* whether a load_user_memories call raises to its caller. Inside the try block the
\* NotImplementedError of a retrieval other than last_n and first_n and the error of a
\* failing read are raised; `except Exception` catches both, logs and returns.
load_user_memories_raises(db_, retrieval_, read_raises) ==
    IF db_ = None
    THEN FALSE
    ELSE LET raised_in_try == retrieval_ \notin {"last_n", "first_n"} \/ read_raises
             caught == raised_in_try
         IN  raised_in_try /\ ~caught

\* the rows db.read_memories returned to a load_user_memories call, <<>> when it was
\* not called or raised
rows_read(db_, retrieval_, num_memories_, rows, read_raises) ==
    IF db_ # None /\ retrieval_ \in {"last_n", "first_n"} /\ ~read_raises
    THEN read_memories(rows, num_memories_, IF retrieval_ = "first_n" THEN "asc" ELSE "desc")
    ELSE <<>>

(***************************************************************************)
(* AgentMemory.should_update_memory and update_memory                      *)
(***************************************************************************)
UpperCase == <<"A", "B", "C", "D", "E", "F", "G", "H", "I", "J", "K", "L", "M",
               "N", "O", "P", "Q", "R", "S", "T", "U", "V", "W", "X", "Y", "Z">>

LowerCase == <<"a", "b", "c", "d", "e", "f", "g", "h", "i", "j", "k", "l", "m",
               "n", "o", "p", "q", "r", "s", "t", "u", "v", "w", "x", "y", "z">>

\* str.lower() of a string given as its characters
lower(chars) ==
    [i \in 1..Len(chars) |->
        IF \E k \in 1..Len(UpperCase) : UpperCase[k] = chars[i]
        THEN LowerCase[CHOOSE k \in 1..Len(UpperCase) : UpperCase[k] = chars[i]]
        ELSE chars[i]]

\* a slip should_update_memory could make: any non-empty answer counts as yes
any_answer_is_yes(classifier_response) ==
    classifier_response # None /\ classifier_response[1] # <<>>

\* a slip should_update_memory could make: compare the answer without lowering it
answer_is_yes_case_sensitive(classifier_response) ==
    /\ classifier_response # None
    /\ classifier_response[1] = <<"y", "e", "s">>

\* classifier_response and classifier_response.lower() == "yes"
answer_is_yes(classifier_response) ==
    /\ classifier_response # None
    /\ classifier_response[1] # <<>>
    /\ lower(classifier_response[1]) = <<"y", "e", "s">>

InvalidMessageContent == "Invalid message content"

PleaseProvideDb == "Please provide a db to store memories"

MemoryUpdateNotRequired == "Memory update not required"

\* isinstance(input, str), input is not None
IsStr(input) == input.type = "str"

(***************************************************************************)
(* Spec: update_memory and load_user_memories, one caller                  *)
(***************************************************************************)
MaxRows == 2

\* MemoryRow.memory: two dicts that validate and one that has no "memory" entry
RowMemories ==
    {[memory |-> "likes jazz"], [memory |-> "lives in Paris"], [topic |-> "music"]}

Stores == SeqsUpTo({[memory |-> m] : m \in RowMemories}, MaxRows)

\* the arguments passed as input: a str, None, an int
InputArgs ==
    {[type |-> "str", value |-> "I like jazz"], [type |-> "NoneType", value |-> ""],
     [type |-> "int", value |-> "42"]}

\* what MemoryClassifier.run returns: None, "", and texts around "yes"
ClassifierAnswers ==
    {None, Some(<<>>), Some(<<"y", "e", "s">>), Some(<<"Y", "E", "S">>), Some(<<"Y", "e", "s">>),
     Some(<<"n", "o">>), Some(<<"y", "e", "s", "!">>)}

\* what MemoryManager.run returns
ManagerResponses == {None, Some("Memory added")}

Init ==
    /\ InitRunVars
    /\ InitMsgVars
    /\ db \in {None, Some("db")}
    /\ store \in IF db = None THEN {<<>>} ELSE Stores
    /\ user_id = Some("u1")
    /\ retrieval \in {"last_n", "first_n", "semantic"}
    /\ num_memories \in {None, Some(1)}
    /\ memories = None
    /\ classifier = None
    /\ manager = None
    /\ updating_memory = FALSE
    /\ pc = [t \in Tasks |-> "idle"]
    /\ frame = [t \in Tasks |-> NoFrame]
    /\ InitSumVars
    /\ InitCopyVars /\ InitRouterVars
    /\ ret = NoCall

\* a slip update_memory could make: raise the flag before checking the input and the db
UpdateMemoryCall_flag_first(t, input, force) ==
    /\ pc[t] = "idle"
    /\ updating_memory' = TRUE
    /\ frame' = [frame EXCEPT ![t] =
                    [input |-> input, force |-> force, answer |-> None, response |-> None,
                     trace |-> <<>>, before |-> memories,
                     should_update_memory |-> IF IsStr(input) /\ db # None /\ force
                                              THEN Some(TRUE) ELSE None]]
    /\ IF ~IsStr(input)
       THEN /\ ret' = [op |-> "update_memory", task |-> t, val |-> Some(InvalidMessageContent)]
            /\ UNCHANGED pc
       ELSE IF db = None
            THEN /\ ret' = [op |-> "update_memory", task |-> t, val |-> Some(PleaseProvideDb)]
                 /\ UNCHANGED pc
            ELSE /\ pc' = [pc EXCEPT ![t] = IF force THEN "manager" ELSE "classify"]
                 /\ ret' = [op |-> "update_memory", task |-> t, val |-> None, running |-> TRUE]
    /\ UNCHANGED <<runVars, msgVars, cfgVars, sumVars, copyVars, routerVars, store, memories, classifier, manager>>

\* a slip update_memory could make: classify also when force is set
UpdateMemoryCall_ignores_force(t, input, force) ==
    /\ pc[t] = "idle"
    /\ frame' = [frame EXCEPT ![t] =
                    [input |-> input, force |-> force, answer |-> None, response |-> None,
                     trace |-> <<>>, before |-> memories, should_update_memory |-> None]]
    /\ IF ~IsStr(input)
       THEN /\ ret' = [op |-> "update_memory", task |-> t, val |-> Some(InvalidMessageContent)]
            /\ UNCHANGED <<updating_memory, pc>>
       ELSE IF db = None
            THEN /\ ret' = [op |-> "update_memory", task |-> t, val |-> Some(PleaseProvideDb)]
                 /\ UNCHANGED <<updating_memory, pc>>
            ELSE /\ updating_memory' = TRUE
                 /\ pc' = [pc EXCEPT ![t] = "classify"]
                 /\ ret' = [op |-> "update_memory", task |-> t, val |-> None, running |-> TRUE]
    /\ UNCHANGED <<runVars, msgVars, cfgVars, sumVars, copyVars, routerVars, store, memories, classifier, manager>>

\* update_memory up to the classification (lines 305-315): the two early returns, else
\* the flag is set and, with force, the classification is skipped. The frame keeps the
\* arguments, the memories found at the call (before), the classifier's answer, the
\* manager's response and the collaborator calls made so far (trace).
UpdateMemoryCall(t, input, force) ==
    /\ pc[t] = "idle"
    /\ frame' = [frame EXCEPT ![t] =
                    [input |-> input, force |-> force, answer |-> None, response |-> None,
                     trace |-> <<>>, before |-> memories,
                     should_update_memory |-> IF IsStr(input) /\ db # None /\ force
                                              THEN Some(TRUE) ELSE None]]
    /\ IF ~IsStr(input)
       THEN /\ ret' = [op |-> "update_memory", task |-> t, val |-> Some(InvalidMessageContent)]
            /\ UNCHANGED <<updating_memory, pc>>
       ELSE IF db = None
            THEN /\ ret' = [op |-> "update_memory", task |-> t, val |-> Some(PleaseProvideDb)]
                 /\ UNCHANGED <<updating_memory, pc>>
            ELSE /\ updating_memory' = TRUE
                 /\ pc' = [pc EXCEPT ![t] = IF force THEN "manager" ELSE "classify"]
                 /\ ret' = [op |-> "update_memory", task |-> t, val |-> None, running |-> TRUE]
    /\ UNCHANGED <<runVars, msgVars, cfgVars, sumVars, copyVars, routerVars, store, memories, classifier, manager>>

\* should_update_memory (lines 267-278) with the classifier's answer, and the return of
\* lines 318-320 when it is not yes
ShouldUpdateMemory(t, classifier_response) ==
    /\ pc[t] = "classify"
    /\ classifier' = Some([existing_memories |-> memories])
    /\ frame' = [frame EXCEPT ![t].answer = Some(classifier_response),
                              ![t].trace = Append(@, "classifier.run"),
                              ![t].should_update_memory = Some(answer_is_yes(classifier_response))]
    /\ IF frame'[t].should_update_memory = Some(TRUE)
       THEN /\ pc' = [pc EXCEPT ![t] = "manager"]
            /\ UNCHANGED ret
       ELSE /\ pc' = [pc EXCEPT ![t] = "idle"]
            /\ ret' = [op |-> "update_memory", task |-> t, val |-> Some(MemoryUpdateNotRequired)]
    /\ UNCHANGED <<runVars, msgVars, cfgVars, sumVars, copyVars, routerVars, store, memories, manager, updating_memory>>

\* lines 322-329: the manager is built or rebound to the current user and db, and run;
\* its run leaves the rows written and returns response
ManagerRun(t, written, response) ==
    /\ pc[t] = "manager"
    /\ manager' = Some([user_id |-> user_id, db |-> db])
    /\ store' = written
    /\ frame' = [frame EXCEPT ![t].response = response,
                              ![t].trace = Append(@, "manager.run")]
    /\ pc' = [pc EXCEPT ![t] = "load"]
    /\ UNCHANGED <<runVars, msgVars, cfgVars, sumVars, copyVars, routerVars, memories, classifier, updating_memory, ret>>

\* line 330: self.load_user_memories()
ReloadMemories(t, read_raises) ==
    /\ pc[t] = "load"
    /\ memories' = load_user_memories(memories, db, retrieval, num_memories, store, read_raises)
    /\ frame' = [frame EXCEPT ![t].trace = Append(@, "load_user_memories")]
    /\ pc' = [pc EXCEPT ![t] = "return"]
    /\ UNCHANGED <<runVars, msgVars, cfgVars, sumVars, copyVars, routerVars, store, classifier, manager, updating_memory, ret>>

\* lines 331-332: the flag is cleared and the manager's response returned
UpdateMemoryReturn(t) ==
    /\ pc[t] = "return"
    /\ updating_memory' = FALSE
    /\ pc' = [pc EXCEPT ![t] = "idle"]
    /\ ret' = [op |-> "update_memory", task |-> t, val |-> frame[t].response]
    /\ UNCHANGED <<runVars, msgVars, cfgVars, sumVars, copyVars, routerVars, store, memories, classifier, manager, frame>>

\* AgentMemory.load_user_memories called on its own, between update_memory calls
LoadUserMemories(read_raises) ==
    /\ \A t \in Tasks : pc[t] = "idle"
    /\ memories' = load_user_memories(memories, db, retrieval, num_memories, store, read_raises)
    /\ ret' = [op |-> "load_user_memories", before |-> memories, read_raises |-> read_raises,
               rows |-> rows_read(db, retrieval, num_memories, store, read_raises),
               raised |-> load_user_memories_raises(db, retrieval, read_raises)]
    /\ UNCHANGED <<runVars, msgVars, cfgVars, sumVars, copyVars, routerVars, store, classifier, manager, updating_memory,
                   pc, frame>>

Next ==
    \/ \E t \in SyncTasks, input \in InputArgs, force \in BOOLEAN : UpdateMemoryCall(t, input, force)
    \/ \E t \in SyncTasks, classifier_response \in ClassifierAnswers :
          ShouldUpdateMemory(t, classifier_response)
    \/ \E t \in SyncTasks, written \in Stores, response \in ManagerResponses :
          ManagerRun(t, written, response)
    \/ \E t \in SyncTasks, read_raises \in BOOLEAN : ReloadMemories(t, read_raises)
    \/ \E t \in SyncTasks : UpdateMemoryReturn(t)
    \/ \E read_raises \in BOOLEAN : LoadUserMemories(read_raises)

Spec == Init /\ [][Next]_vars

\* the spellings of "yes" in upper and lower case
YesForms == {<<a, b, c>> : a \in {"y", "Y"}, b \in {"e", "E"}, c \in {"s", "S"}}

\* the classifier was asked in caller t's call and answered yes in some spelling
SaidYes(t) ==
    /\ frame[t].answer # None
    /\ frame[t].answer[1] # None
    /\ frame[t].answer[1][1] \in YesForms

\* how often caller t's call has made the collaborator call named event
Count(t, event) == Cardinality({i \in 1..Len(frame[t].trace) : frame[t].trace[i] = event})

\* caller t's last call was update_memory with a text input, a db configured and force=False
Unforced(t) == IsStr(frame[t].input) /\ db # None /\ ~frame[t].force

\* caller t's call has returned and nothing was called since
Returned(t) == pc[t] = "idle" /\ ret.op = "update_memory" /\ ret.task = t

C9_State ==
    \A t \in Tasks :
        Unforced(t) =>
            /\ Count(t, "classifier.run") <= 1
            /\ Count(t, "manager.run") > 0 =>
                  frame[t].trace[1] = "classifier.run" /\ SaidYes(t)
            /\ Returned(t) => Count(t, "classifier.run") = 1
            /\ (Returned(t) /\ ~SaidYes(t)) =>
                  /\ frame[t].trace = <<"classifier.run">>
                  /\ memories = frame[t].before
                  /\ ret.val = Some(MemoryUpdateNotRequired)

C9_Step ==
    store' # store =>
        \E t \in Tasks : pc[t] = "manager" /\ (frame[t].force \/ SaidYes(t))

\* C9: with a db, a text input and force=False, update_memory calls the classifier once,
\* before the manager and so before any store write; when the answer is not "yes" in any
\* spelling, the manager is not called, memories is as the call found it and the call
\* returns "Memory update not required"; and the store changes only in the manager's run
\* of a call that is forced or was answered yes.
C9_ClassifierGatesWrite == [](C9_State) /\ [][C9_Step]_vars

\* C9 witness: a call answered "no" returned with memories loaded and rows stored
C9_Witness ==
    /\ Unforced("t1")
    /\ Returned("t1")
    /\ frame["t1"].answer = Some(Some(<<"n", "o">>))
    /\ memories # None
    /\ memories # Some(<<>>)
    /\ store # <<>>
    /\ ret.val = Some(MemoryUpdateNotRequired)

\* C10 as stated: updating_memory is true throughout an update_memory call that passed
\* its input checks and false once it has returned, on every return path.
C10_FlagMarksUpdate == updating_memory <=> (\E t \in Tasks : pc[t] # "idle")

\* a step in which caller t enters update_memory
CallStep(t) == pc[t] = "idle" /\ ret'.op = "update_memory" /\ ret'.task = t

C11_Step ==
    \A t \in Tasks :
        (CallStep(t) /\ (~IsStr(frame'[t].input) \/ db = None)) =>
            /\ ret'.val = Some(IF ~IsStr(frame'[t].input) THEN InvalidMessageContent
                               ELSE PleaseProvideDb)
            /\ pc'[t] = "idle"
            /\ frame'[t].trace = <<>>
            /\ UNCHANGED <<store, memories, updating_memory, classifier, manager>>

\* C11: an update_memory call with an input that is not a str, or with no db, returns its
\* diagnostic string in the step of the call: no collaborator is called, the store, the
\* memories, the classifier and the manager are as before, and updating_memory keeps the
\* value it had.
C11_EarlyReturnNoEffect == [][C11_Step]_vars

\* C11 witness: a call with an input that is not a str returned its diagnostic while the
\* flag was up and memories were loaded, and left both so
C11_Witness ==
    /\ Returned("t1")
    /\ ~IsStr(frame["t1"].input)
    /\ db # None
    /\ ret.val = Some(InvalidMessageContent)
    /\ frame["t1"].trace = <<>>
    /\ updating_memory
    /\ memories # None
    /\ memories # Some(<<>>)
    /\ memories = frame["t1"].before
    /\ classifier # None

\* C12: should_update_memory gives the classifier the memories as they are at the call
\* (building the classifier when there is none), runs it once, and returns True exactly
\* when the answer is "yes" in some spelling of upper and lower case; None, the empty
\* string and any other text give False.
C12_ShouldUpdateIffYes ==
    \A t \in Tasks :
        Count(t, "classifier.run") > 0 =>
            /\ Count(t, "classifier.run") = 1
            /\ classifier # None
            /\ classifier[1].existing_memories = frame[t].before
            /\ frame[t].should_update_memory = Some(SaidYes(t))

\* C12 witness: a classifier given loaded memories answered "YES" and the result was True
C12_Witness ==
    /\ Count("t1", "classifier.run") = 1
    /\ frame["t1"].answer = Some(Some(<<"Y", "E", "S">>))
    /\ frame["t1"].should_update_memory = Some(TRUE)
    /\ frame["t1"].before # None
    /\ frame["t1"].before # Some(<<>>)
    /\ classifier = Some([existing_memories |-> frame["t1"].before])

(***************************************************************************)
(* SpecLoad: load_user_memories from every configuration                   *)
(***************************************************************************)
\* what memories can hold when load_user_memories is called: None, an empty list, a
\* list loaded earlier
MemoriesBefore == {None, Some(<<>>), Some(<<[memory |-> "has a dog"]>>)}

InitLoad ==
    /\ InitRunVars
    /\ InitMsgVars
    /\ InitSumVars
    /\ InitCopyVars /\ InitRouterVars
    /\ db \in {None, Some("db")}
    /\ store \in IF db = None THEN {<<>>} ELSE Stores
    /\ user_id = Some("u1")
    /\ retrieval \in {"last_n", "first_n", "semantic"}
    /\ num_memories \in {None, Some(1)}
    /\ memories \in MemoriesBefore
    /\ classifier = None
    /\ manager = None
    /\ updating_memory = FALSE
    /\ pc = [t \in Tasks |-> "idle"]
    /\ frame = [t \in Tasks |-> NoFrame]
    /\ ret = NoCall

NextLoad == \E read_raises \in BOOLEAN : LoadUserMemories(read_raises)

SpecLoad == InitLoad /\ [][NextLoad]_vars

\* C13 as stated: with a db and the semantic retrieval, load_user_memories raises to its
\* caller and loads nothing under another ordering.
C13_SemanticRaises ==
    (ret.op = "load_user_memories" /\ db # None /\ retrieval = "semantic") =>
        ret.raised /\ memories = ret.before

\* C14 as stated: when the read raises, load_user_memories returns normally and leaves
\* memories the empty list, whatever it held before.
C14_FailedReadEmpties ==
    (ret.op = "load_user_memories" /\ db # None /\ retrieval # "semantic" /\ ret.read_raises) =>
        ~ret.raised /\ memories = Some(<<>>)

C16_Step ==
    (db = None /\ ret'.op = "load_user_memories") =>
        /\ ~ret'.raised
        /\ UNCHANGED <<memories, runs, messages, update_system_message_on_change, summary,
                       summarizer, db, store, user_id, retrieval, num_memories, classifier,
                       manager, updating_memory>>

\* C16: without a db, a load_user_memories call returns with memories and every other
\* field as it found them.
C16_NoDbNoChange == [][C16_Step]_vars

\* C16 witness: a call without a db returned and a list loaded earlier is still there
C16_Witness ==
    /\ ret.op = "load_user_memories"
    /\ db = None
    /\ ~ret.raised
    /\ ret.before = Some(<<[memory |-> "has a dog"]>>)
    /\ memories = ret.before

\* the memories of the rows of a batch that deserialize, in the batch's order
Deserialized(rows) ==
    LET good == SelectSeq(rows, LAMBDA row : "memory" \in DOMAIN row.memory)
    IN  [i \in 1..Len(good) |-> [memory |-> good[i].memory.memory]]

\* C17: after a read that succeeded, memories holds exactly the memories of the returned
\* rows that deserialize, in the order the store returned them: a row that does not is
\* left out, the rows after it are loaded, and nothing held before the call is kept.
C17_ReplacedByReadRows ==
    (ret.op = "load_user_memories" /\ db # None /\ retrieval # "semantic" /\ ~ret.read_raises) =>
        memories = Some(Deserialized(ret.rows))

\* C17 witness: the store returned a row that does not deserialize and then one that
\* does; the second is loaded and the memory held before is gone
C17_Witness ==
    /\ ret.op = "load_user_memories"
    /\ ~ret.read_raises
    /\ ret.rows = <<[memory |-> [topic |-> "music"]], [memory |-> [memory |-> "likes jazz"]]>>
    /\ ret.before = Some(<<[memory |-> "has a dog"]>>)
    /\ memories = Some(<<[memory |-> "likes jazz"]>>)

(***************************************************************************)
(* AgentMemory.update_summary                                              *)
(***************************************************************************)
\* SessionSummary: its text is represented by the message pairs it was made from
SessionSummary(message_pairs) == [summary |-> message_pairs]

\* MemorySummarizer.run(message_pairs): a SessionSummary of the pairs it is given, or
\* None when the model gives it nothing to parse (gives is FALSE)
summarizer_run(message_pairs, gives) ==
    IF gives THEN Some(SessionSummary(message_pairs)) ELSE None

\* a slip update_summary could make: summarize the last run only
update_summary_of_last_run(rs, gives) ==
    summarizer_run(get_message_pairs(IF rs = <<>> THEN <<>> ELSE <<rs[Len(rs)]>>, "user", None),
                   gives)

\* AgentMemory.update_summary: self.summary afterwards;
\* self.summarizer.run(self.get_message_pairs()) with the defaults of get_message_pairs
update_summary(rs, gives) == summarizer_run(get_message_pairs(rs, "user", None), gives)

\* update_summary as one step of a single caller: the flag is raised and lowered again,
\* the summarizer is built when there is none
UpdateSummary(gives) ==
    /\ \A t \in Tasks : pc[t] = "idle"
    /\ updating_memory' = FALSE
    /\ summarizer' = IF summarizer = None THEN Some("MemorySummarizer") ELSE summarizer
    /\ summary' = update_summary(runs, gives)
    /\ ret' = [op |-> "update_summary", before |-> summary, gives |-> gives,
               val |-> update_summary(runs, gives)]
    /\ UNCHANGED <<runVars, msgVars, cfgVars, copyVars, routerVars, store, memories, classifier, manager,
                   pc, frame>>

(***************************************************************************)
(* SpecSummary: update_summary on bounded run lists, from every summary    *)
(***************************************************************************)
MaxSummaryRuns == 2

\* the messages of a stored run: none, a user message alone, an exchange, an exchange
\* with a second one after it, an exchange after messages taken from the history
SummaryRunMessages ==
    {None,
     Some(<<Msg("user", "hi", FALSE, <<>>)>>),
     Some(<<Msg("user", "hi", FALSE, <<>>), Msg("assistant", "hello", FALSE, <<>>)>>),
     Some(<<Msg("user", "hi", FALSE, <<>>), Msg("assistant", "hello", FALSE, <<>>),
            Msg("user", "ok", FALSE, <<>>), Msg("model", "bye", FALSE, <<>>)>>),
     Some(<<Msg("user", "old", TRUE, <<>>), Msg("assistant", "old", TRUE, <<>>),
            Msg("user", "ok", FALSE, <<>>), Msg("assistant", "fine", FALSE, <<>>)>>)}

SummaryRunLists ==
    UNION {{[i \in 1..k |-> AgentRun(Some(RunResponse(RunIdAt(i), msgs[i])))] :
            msgs \in [1..k -> SummaryRunMessages]} : k \in 0..MaxSummaryRuns}

\* the summary held before the call: None, or one made of an earlier exchange
SummariesBefore ==
    {None,
     Some(SessionSummary(<<>>)),
     Some(SessionSummary(<<<<Msg("user", "earlier", FALSE, <<>>),
                             Msg("assistant", "indeed", FALSE, <<>>)>>>>))}

InitSummary ==
    /\ runs \in SummaryRunLists
    /\ lastAdded = [id \in RunIds |-> None]
    /\ InitMsgVars
    /\ InitMemVars
    /\ InitCopyVars /\ InitRouterVars
    /\ summary \in SummariesBefore
    /\ summarizer \in {None, Some("MemorySummarizer")}
    /\ ret = NoCall

NextSummary == \E gives \in BOOLEAN : UpdateSummary(gives)

SpecSummary == InitSummary /\ [][NextSummary]_vars

\* C18: after update_summary, summary is what the summarizer made of the message pairs
\* of all stored runs, and what the call returned; the summary held before has no part
\* in it, so from two different earlier summaries and the same runs the same summary
\* results.
C18_SummaryOfAllRuns ==
    ret.op = "update_summary" =>
        /\ summary = summarizer_run(PairsOf(runs, "user", DefaultAssistantRoles), ret.gives)
        /\ ret.val = summary

\* C18 witness: over two runs with an exchange each, a summary of an earlier exchange
\* was replaced by the summary of the two pairs
C18_Witness ==
    /\ ret.op = "update_summary"
    /\ ret.before = Some(SessionSummary(<<<<Msg("user", "earlier", FALSE, <<>>),
                                            Msg("assistant", "indeed", FALSE, <<>>)>>>>))
    /\ Len(runs) = 2
    /\ summary # None
    /\ Len(summary[1].summary) = 2
    /\ summary[1].summary[1] = <<Msg("user", "hi", FALSE, <<>>), Msg("model", "bye", FALSE, <<>>)>>
    /\ summary[1].summary[2] = <<Msg("user", "ok", FALSE, <<>>), Msg("assistant", "fine", FALSE, <<>>)>>

(***************************************************************************)
(* AgentMemory.clear                                                       *)
(***************************************************************************)
\* no update_memory call is under way
Idle == \A t \in Tasks : pc[t] = "idle"

\* the four collections, as clear finds them
Collections == [runs |-> runs, messages |-> messages, summary |-> summary, memories |-> memories]

\* a slip clear could make: drop the collaborators with the data
Clear_drops_collaborators ==
    /\ Idle
    /\ runs' = <<>>
    /\ messages' = <<>>
    /\ summary' = None
    /\ memories' = None
    /\ classifier' = None
    /\ manager' = None
    /\ summarizer' = None
    /\ lastAdded' = [id \in RunIds |-> None]
    /\ clean' = TRUE
    /\ ret' = [op |-> "clear", before |-> Collections]
    /\ UNCHANGED <<update_system_message_on_change, cfgVars, copyVars, routerVars, store, updating_memory,
                   pc, frame>>

\* AgentMemory.clear; the history variables of the run list and of the message history
\* start afresh with them
Clear ==
    /\ Idle
    /\ runs' = <<>>
    /\ messages' = <<>>
    /\ summary' = None
    /\ memories' = None
    /\ lastAdded' = [id \in RunIds |-> None]
    /\ clean' = TRUE
    /\ ret' = [op |-> "clear", before |-> Collections]
    /\ UNCHANGED <<update_system_message_on_change, cfgVars, copyVars, routerVars, store, classifier,
                   manager, summarizer, updating_memory, pc, frame>>

(***************************************************************************)
(* SpecSession: every operation on one AgentMemory, one caller             *)
(***************************************************************************)
SessionRuns ==
    {AgentRun(Some(RunResponse(Some("r1"), Some(<<Msg("user", "hi", FALSE, <<>>),
                                                   Msg("assistant", "hello", FALSE, <<>>)>>)))),
     AgentRun(Some(RunResponse(Some("r2"), None)))}

SessionSystemMessage == Msg(DefaultSystemRole, "s1", FALSE, <<>>)

SessionMessages == <<Msg("user", "hi", FALSE, <<>>)>>

SessionInput == [type |-> "str", value |-> "I like jazz"]

SessionAnswers == {Some(<<"y", "e", "s">>), Some(<<"n", "o">>)}

SessionStores == {<<>>, <<[memory |-> [memory |-> "likes jazz"]]>>}

InitSession ==
    /\ InitRunVars
    /\ InitMsgVars
    /\ InitSumVars
    /\ InitCopyVars /\ InitRouterVars
    /\ db = Some("db")
    /\ store = <<>>
    /\ user_id = Some("u1")
    /\ retrieval = "last_n"
    /\ num_memories = None
    /\ memories = None
    /\ classifier = None
    /\ manager = None
    /\ updating_memory = FALSE
    /\ pc = [t \in Tasks |-> "idle"]
    /\ frame = [t \in Tasks |-> NoFrame]
    /\ ret = NoCall

NextSession ==
    \/ \E agent_run \in SessionRuns : Idle /\ AddRun(agent_run)
    \/ Idle /\ AddSystemMessage(SessionSystemMessage, DefaultSystemRole)
    \/ Idle /\ Len(messages) < MaxHistory /\ AddMessages(SessionMessages)
    \/ Idle /\ UpdateSummary(TRUE)
    \/ \E read_raises \in BOOLEAN : LoadUserMemories(read_raises)
    \/ \E t \in SyncTasks, force \in BOOLEAN : UpdateMemoryCall(t, SessionInput, force)
    \/ \E t \in SyncTasks, classifier_response \in SessionAnswers :
          ShouldUpdateMemory(t, classifier_response)
    \/ \E t \in SyncTasks, written \in SessionStores : ManagerRun(t, written, Some("Memory added"))
    \/ \E t \in SyncTasks, read_raises \in BOOLEAN : ReloadMemories(t, read_raises)
    \/ \E t \in SyncTasks : UpdateMemoryReturn(t)
    \/ Clear

SpecSession == InitSession /\ [][NextSession]_vars

\* a step that is a load_user_memories call, made on its own or by update_memory
LoadStep ==
    \/ Idle /\ ret'.op = "load_user_memories"
    \/ \E t \in Tasks : pc[t] = "load" /\ pc'[t] = "return"

\* a step that is a clear call
ClearStep == Idle /\ ret'.op = "clear"

C15_Step ==
    /\ (memories = None /\ memories' # None) => (LoadStep /\ db # None)
    /\ (LoadStep /\ db # None) => memories' # None
    /\ (memories # None /\ ~ClearStep) => memories' # None

\* C15 as stated: memories is None until the first load; a load_user_memories call with a
\* db, failing ones included, leaves memories a list, and memories stays a list under
\* every operation until clear is called.
C15_ListOnceLoaded == [](ret = NoCall => memories = None) /\ [][C15_Step]_vars

C19_Step ==
    ClearStep =>
        /\ runs' = <<>>
        /\ messages' = <<>>
        /\ summary' = None
        /\ memories' = None
        /\ UNCHANGED <<db, classifier, manager, summarizer, user_id, retrieval, num_memories>>

\* C19: a clear call in any state leaves runs and messages empty and summary and memories
\* None, and leaves db, classifier, manager, summarizer, user_id, retrieval and
\* num_memories as they were.
C19_ClearResetsDataOnly == [][C19_Step]_vars

\* C19 witness: clear emptied four collections that all held something, and the db and
\* the three collaborators built by then are still there
C19_Witness ==
    /\ ret.op = "clear"
    /\ ret.before.runs # <<>>
    /\ ret.before.messages # <<>>
    /\ ret.before.summary # None
    /\ ret.before.memories # None
    /\ ret.before.memories # Some(<<>>)
    /\ runs = <<>>
    /\ messages = <<>>
    /\ summary = None
    /\ memories = None
    /\ db # None
    /\ classifier # None
    /\ manager # None
    /\ summarizer # None

(***************************************************************************)
(* AgentMemory.__deepcopy__                                                *)
(*                                                                         *)
(* Two AgentMemory objects and the list objects they refer to. heap maps   *)
(* an address to the contents of the list object there; an AgentMemory is  *)
(* the record of its fields, where runs and messages hold the address of   *)
(* their list, memories holds None or an address, summary holds its value, *)
(* and db, classifier, manager and summarizer hold None or the identity of *)
(* the collaborator object. A mutation in place (append, extend, insert,   *)
(* item assignment) changes heap at the list's address; an assignment to   *)
(* the field changes the address the object holds.                         *)
(***************************************************************************)
Objects == {"original", "copy"}

\* the number of addresses: three lists per object and two lists being built by clear
HeapCells == 8

\* the addresses the objects os refer to
Refs(os) ==
    UNION {{os[o].runs, os[o].messages} \cup
           (IF os[o].memories = None THEN {} ELSE {os[o].memories[1]}) : o \in DOMAIN os}

\* the n-th address no object refers to: where the n-th new list is built
NthFree(n) ==
    LET free == (1..HeapCells) \ Refs(objs)
    IN  CHOOSE a \in free : Cardinality({b \in free : b < a}) = n - 1

\* a list object no object refers to any more is reclaimed
Collect(h, os) == [a \in 1..HeapCells |-> IF a \in Refs(os) THEN h[a] ELSE <<>>]

\* a slip __deepcopy__ could make: copy.copy, every field by reference
shallow_copy(self, runs_at, messages_at, memories_at) == self

\* AgentMemory.__deepcopy__: the fields of the copy. db, classifier, manager and
\* summarizer are set by reference; every other field is deep-copied, the lists to the
\* new addresses given
deepcopy(self, runs_at, messages_at, memories_at) ==
    [runs |-> runs_at,
     messages |-> messages_at,
     update_system_message_on_change |-> self.update_system_message_on_change,
     summary |-> self.summary,
     memories |-> IF self.memories = None THEN None ELSE Some(memories_at),
     db |-> self.db,
     classifier |-> self.classifier,
     manager |-> self.manager,
     summarizer |-> self.summarizer]

\* copy.deepcopy(original): the copy's lists are built with the contents of the
\* original's
Duplicate ==
    /\ DOMAIN objs = {"original"}
    /\ LET self == objs["original"]
           new == deepcopy(self, NthFree(1), NthFree(2), NthFree(3))
       IN  /\ objs' = [o \in Objects |-> IF o = "original" THEN self ELSE new]
           /\ heap' = [a \in 1..HeapCells |->
                          IF a = new.runs THEN heap[self.runs]
                          ELSE IF a = new.messages THEN heap[self.messages]
                          ELSE IF new.memories # None /\ a = new.memories[1]
                               THEN heap[self.memories[1]]
                               ELSE heap[a]]
    /\ ret' = [op |-> "deepcopy"]
    /\ UNCHANGED <<runVars, msgVars, memVars, sumVars, routerVars>>

AddRunOn(o, agent_run) ==
    /\ o \in DOMAIN objs
    /\ heap' = [heap EXCEPT ![objs[o].runs] = add_run(@, agent_run)]
    /\ ret' = [op |-> "add_run", on |-> o]
    /\ UNCHANGED <<objs, runVars, msgVars, memVars, sumVars, routerVars>>

AddSystemMessageOn(o, message, system_message_role) ==
    /\ o \in DOMAIN objs
    /\ heap' = [heap EXCEPT ![objs[o].messages] =
                   add_system_message(@, objs[o].update_system_message_on_change, message,
                                      system_message_role)]
    /\ ret' = [op |-> "add_system_message", on |-> o]
    /\ UNCHANGED <<objs, runVars, msgVars, memVars, sumVars, routerVars>>

AddMessagesOn(o, new) ==
    /\ o \in DOMAIN objs
    /\ heap' = [heap EXCEPT ![objs[o].messages] = add_messages(@, new)]
    /\ ret' = [op |-> "add_messages", on |-> o]
    /\ UNCHANGED <<objs, runVars, msgVars, memVars, sumVars, routerVars>>

\* clear assigns two new empty lists and None twice
ClearOn(o) ==
    /\ o \in DOMAIN objs
    /\ objs' = [objs EXCEPT ![o].runs = NthFree(1), ![o].messages = NthFree(2),
                            ![o].summary = None, ![o].memories = None]
    /\ heap' = Collect([heap EXCEPT ![NthFree(1)] = <<>>, ![NthFree(2)] = <<>>], objs')
    /\ ret' = [op |-> "clear", on |-> o]
    /\ UNCHANGED <<runVars, msgVars, memVars, sumVars, routerVars>>

(***************************************************************************)
(* SpecCopy: an AgentMemory, its copy, and the operations on either        *)
(***************************************************************************)
MaxCopyLen == 2

\* the original before it is copied: its lists at addresses 1 to 3
InitCopy ==
    /\ InitRouterVars
    /\ InitRunVars
    /\ InitMsgVars
    /\ InitMemVars
    /\ InitSumVars
    /\ \E rs \in {<<>>, <<AgentRun(Some(RunResponse(Some("r1"), None)))>>},
          ms \in {<<>>, <<SessionSystemMessage>>},
          mems \in {None, Some(<<[memory |-> "likes jazz"]>>)},
          s \in {None, Some(SessionSummary(<<>>))},
          built \in BOOLEAN :
          /\ heap = [a \in 1..HeapCells |->
                        IF a = 1 THEN rs
                        ELSE IF a = 2 THEN ms
                        ELSE IF a = 3 /\ mems # None THEN mems[1]
                        ELSE <<>>]
          /\ objs = [o \in {"original"} |->
                        [runs |-> 1,
                         messages |-> 2,
                         update_system_message_on_change |-> FALSE,
                         summary |-> s,
                         memories |-> IF mems = None THEN None ELSE Some(3),
                         db |-> Some([class |-> "MemoryDb", id |-> 1]),
                         classifier |-> IF built THEN Some([class |-> "MemoryClassifier", id |-> 2])
                                        ELSE None,
                         manager |-> IF built THEN Some([class |-> "MemoryManager", id |-> 3])
                                     ELSE None,
                         summarizer |-> IF built THEN Some([class |-> "MemorySummarizer", id |-> 4])
                                        ELSE None]]
    /\ ret = NoCall

NextCopy ==
    \/ Duplicate
    \/ \E o \in Objects, agent_run \in SessionRuns :
          /\ AddRunOn(o, agent_run)
          /\ Len(heap'[objs[o].runs]) <= MaxCopyLen
    \/ \E o \in Objects :
          /\ AddSystemMessageOn(o, SessionSystemMessage, DefaultSystemRole)
          /\ Len(heap'[objs[o].messages]) <= MaxCopyLen
    \/ \E o \in Objects :
          /\ AddMessagesOn(o, SessionMessages)
          /\ Len(heap'[objs[o].messages]) <= MaxCopyLen
    \/ \E o \in Objects : ClearOn(o)

SpecCopy == InitCopy /\ [][NextCopy]_vars

\* the four collections of object o, by value
View(o) ==
    [runs |-> heap[objs[o].runs],
     messages |-> heap[objs[o].messages],
     summary |-> objs[o].summary,
     memories |-> IF objs[o].memories = None THEN None ELSE Some(heap[objs[o].memories[1]])]

C20_State ==
    "copy" \in DOMAIN objs =>
        /\ objs["copy"].db = objs["original"].db
        /\ objs["copy"].classifier = objs["original"].classifier
        /\ objs["copy"].manager = objs["original"].manager
        /\ objs["copy"].summarizer = objs["original"].summarizer

C20_Step ==
    \A o \in Objects :
        ("copy" \in DOMAIN objs /\ ret'.op \in {"add_run", "add_messages", "add_system_message", "clear"}
            /\ ret'.on # o) =>
            View(o)' = View(o)

\* C20: once an AgentMemory is copied, the copy and the original hold the same db,
\* classifier, manager and summarizer objects, and an add_run, add_messages,
\* add_system_message or clear call on one of the two leaves the runs, messages, summary
\* and memories of the other as they were.
C20_CopyIsIndependent == [](C20_State) /\ [][C20_Step]_vars

\* C20 witness: after the copy was made of an original holding a run, a message, a
\* summary and a memory, a run was added to the copy and the original has its one run
C20_Witness ==
    /\ "copy" \in DOMAIN objs
    /\ ret.op = "add_run"
    /\ ret.on = "copy"
    /\ Len(View("copy").runs) = 2
    /\ Len(View("original").runs) = 1
    /\ View("original").messages # <<>>
    /\ View("original").summary # None
    /\ View("original").memories # None
    /\ objs["original"].classifier # None
    /\ objs["copy"].classifier = objs["original"].classifier

(***************************************************************************)
(* The FastAPI router (libs/agno/agno/app/fastapi/sync_router.py)          *)
(*                                                                         *)
(* An exception is a record of its type; an HTTPException carries          *)
(* status_code and detail. A call the handler makes on a collaborator is a *)
(* record of the function's name and its arguments. An uploaded file is    *)
(* the record of its filename, its content_type, and ok: whether its       *)
(* conversion, reading and ingestion succeed.                              *)
(***************************************************************************)
HTTPException(status_code, detail) ==
    [type |-> "HTTPException", status_code |-> status_code, detail |-> detail]

\* any exception that is not an HTTPException: a failing reader, an unbound local
OtherException(type) == [type |-> type, status_code |-> 0, detail |-> ""]

\* the status FastAPI answers with when the handler raises: the HTTPException's own
\* status_code, 500 for any other exception
status_of(exception) ==
    IF exception.type = "HTTPException" THEN exception.status_code ELSE 500

Call(fn, args) == [fn |-> fn, args |-> args]

UploadFile(filename, content_type, ok) ==
    [filename |-> filename, content_type |-> content_type, ok |-> ok]

ImageTypes == {"image/png", "image/jpeg", "image/jpg", "image/webp"}

AudioTypes == {"audio/wav", "audio/mp3", "audio/mpeg"}

VideoTypes ==
    {"video/x-flv", "video/quicktime", "video/mpeg", "video/mpegs", "video/mpgs", "video/mpg",
     "video/mp4", "video/webm", "video/wmv", "video/3gpp"}

\* the content types agent_process_file has a reader for, and team_process_file passes
\* to process_document
DocumentTypes ==
    {"application/pdf", "text/csv",
     "application/vnd.openxmlformats-officedocument.wordprocessingml.document",
     "text/plain", "application/json"}

\* the locals of a process_file call: the three (for a team, four) lists, the calls made,
\* and the exception that ended the loop, if any
NoFiles ==
    [images |-> <<>>, audios |-> <<>>, videos |-> <<>>, documents |-> <<>>, calls |-> <<>>,
     raised |-> None]

\* a media branch of the loop (lines 144-176, 241-273): the converted file is appended,
\* a file whose conversion raises is logged and skipped
convert(acc, file, fn, list) ==
    LET called == [acc EXCEPT !.calls = Append(@, Call(fn, file.filename))]
    IN  IF file.ok
        THEN [called EXCEPT ![list] = Append(@, file.filename)]
        ELSE called

\* a slip agent_process_file could make: ingest into a knowledge base that is not there
\* checked for
RECURSIVE agent_process_file_unchecked(_, _, _)
agent_process_file_unchecked(files, agent, acc) ==
    IF files = <<>>
    THEN acc
    ELSE LET file == Head(files)
         IN  IF file.content_type \in ImageTypes
             THEN agent_process_file_unchecked(Tail(files), agent, convert(acc, file, "process_image", "images"))
             ELSE IF file.content_type \in AudioTypes
             THEN agent_process_file_unchecked(Tail(files), agent, convert(acc, file, "process_audio", "audios"))
             ELSE IF file.content_type \in VideoTypes
             THEN agent_process_file_unchecked(Tail(files), agent, convert(acc, file, "process_video", "videos"))
             ELSE IF file.content_type \in DocumentTypes
             THEN LET read == [acc EXCEPT !.calls = Append(@, Call("Reader.read", file.filename))]
                  IN  IF ~file.ok
                      THEN [read EXCEPT !.raised = Some(OtherException("Exception"))]
                      ELSE agent_process_file_unchecked(Tail(files), agent,
                               [read EXCEPT !.calls =
                                    Append(@, Call("knowledge.load_documents", file.filename))])
             ELSE [acc EXCEPT !.raised = Some(HTTPException(400, "Unsupported file type"))]

\* agent_process_file (lines 135-231), from the locals acc on: media files are
\* converted; any other file needs agent.knowledge, is read by the reader of its type
\* and loaded into the knowledge base, with no try around either; a type without a
\* reader is refused
RECURSIVE agent_process_file(_, _, _)
agent_process_file(files, agent, acc) ==
    IF files = <<>>
    THEN acc
    ELSE LET file == Head(files)
         IN  IF file.content_type \in ImageTypes
             THEN agent_process_file(Tail(files), agent, convert(acc, file, "process_image", "images"))
             ELSE IF file.content_type \in AudioTypes
             THEN agent_process_file(Tail(files), agent, convert(acc, file, "process_audio", "audios"))
             ELSE IF file.content_type \in VideoTypes
             THEN agent_process_file(Tail(files), agent, convert(acc, file, "process_video", "videos"))
             ELSE IF agent.knowledge = None
             THEN [acc EXCEPT !.raised = Some(HTTPException(404, "KnowledgeBase not found"))]
             ELSE IF file.content_type \in DocumentTypes
             THEN LET read == [acc EXCEPT !.calls = Append(@, Call("Reader.read", file.filename))]
                  IN  IF ~file.ok
                      THEN [read EXCEPT !.raised = Some(OtherException("Exception"))]
                      ELSE agent_process_file(Tail(files), agent,
                               [read EXCEPT !.calls =
                                    Append(@, Call("knowledge.load_documents", file.filename))])
             ELSE [acc EXCEPT !.raised = Some(HTTPException(400, "Unsupported file type"))]

\* agno.app.playground.utils.process_document: the FileMedia of the file, None for a
\* file that cannot be read
process_document(file) == IF file.ok THEN Some(file.filename) ELSE None

\* team_process_file (lines 233-287), from the locals acc on
RECURSIVE team_process_file(_, _)
team_process_file(files, acc) ==
    IF files = <<>>
    THEN acc
    ELSE LET file == Head(files)
         IN  IF file.content_type \in ImageTypes
             THEN team_process_file(Tail(files), convert(acc, file, "process_image", "images"))
             ELSE IF file.content_type \in AudioTypes
             THEN team_process_file(Tail(files), convert(acc, file, "process_audio", "audios"))
             ELSE IF file.content_type \in VideoTypes
             THEN team_process_file(Tail(files), convert(acc, file, "process_video", "videos"))
             ELSE IF file.content_type \in DocumentTypes
             THEN LET called == [acc EXCEPT !.calls = Append(@, Call("process_document", file.filename))]
                      document_file == process_document(file)
                  IN  team_process_file(Tail(files),
                          IF document_file # None
                          THEN [called EXCEPT !.documents = Append(@, document_file[1])]
                          ELSE called)
             ELSE [acc EXCEPT !.raised = Some(HTTPException(400, "Unsupported file type"))]

\* the registry entries, the fields the router reads and writes
Agent(agent_id, knowledge) == [agent_id |-> agent_id, knowledge |-> knowledge, monitoring |-> FALSE]

Team(team_id) == [team_id |-> team_id, monitoring |-> FALSE]

\* class is "Workflow" for the older style and "WorkflowV2" for the newer; object tells
\* the object registered with the router from a copy made of it
WorkflowOf(class, workflow_id) ==
    [class |-> class, workflow_id |-> workflow_id, monitoring |-> FALSE, object |-> "registered",
     user_id |-> Some("owner"), session_name |-> Some("main")]

\* workflow.deep_copy(update={"workflow_id": workflow_id}): another object with the
\* fields of the workflow and the updated identifier
deep_copy(workflow, update) ==
    [workflow EXCEPT !.object = "copy", !.workflow_id = update.workflow_id]

\* a slip the handler could make: update and run the registered workflow itself
workflow_instance_is_registered(workflow, request) ==
    [workflow EXCEPT !.workflow_id = request.workflow_id[1], !.user_id = request.user_id,
                     !.session_name = None]

\* lines 388-390, 435-437: the copy made for the request, with the request's user_id and
\* no session name
workflow_instance_of(workflow, request) ==
    [deep_copy(workflow, [workflow_id |-> request.workflow_id[1]]) EXCEPT
         !.user_id = request.user_id, !.session_name = None]

\* str(uuid4()): the n-th identifier generated
uuid4(n) == "uuid-" \o ToString(n)

\* next((e for e in entities if e.<key> == id), None), as the index of the entry
first_with(entities, key, id) ==
    LET hits == {i \in 1..Len(entities) : entities[i][key] = id}
    IN  IF hits = {} THEN None ELSE Some(Min(hits))

\* json.loads of the texts a request carries as workflow_input: an object, a number, or
\* a JSONDecodeError (decoded is FALSE)
json_loads(text) ==
    IF text = "{\"topic\": \"jazz\"}" THEN [decoded |-> TRUE, type |-> "dict"]
    ELSE IF text = "5" THEN [decoded |-> TRUE, type |-> "int"]
    ELSE [decoded |-> FALSE, type |-> "str"]

\* a slip the handler could make: keep an empty session_id
session_id_unless_none(request, uuid) ==
    IF request.session_id # None THEN request.session_id[1] ELSE uuid

\* lines 302-306: the request's session_id, or a generated one when it is None or ""
session_id_of(request, uuid) ==
    IF request.session_id # None /\ request.session_id[1] # ""
    THEN request.session_id[1]
    ELSE uuid

\* a slip the handler could make: refuse only a request that sets all three selectors
selector_error_unless_all(request) ==
    LET a == StrTruthy(request.agent_id)
        t == StrTruthy(request.team_id)
        w == StrTruthy(request.workflow_id)
    IN  IF a /\ t /\ w
        THEN Some(HTTPException(400, "Only one of agent_id, team_id or workflow_id can be provided"))
        ELSE IF ~a /\ ~t /\ ~w
        THEN Some(HTTPException(400, "One of agent_id, team_id or workflow_id must be provided"))
        ELSE None

\* lines 308-313: the exception for two or three selectors set, or for none; a selector
\* is set when it is neither None nor ""
selector_error(request) ==
    LET a == StrTruthy(request.agent_id)
        t == StrTruthy(request.team_id)
        w == StrTruthy(request.workflow_id)
    IN  IF (a /\ t) \/ (a /\ w) \/ (t /\ w)
        THEN Some(HTTPException(400, "Only one of agent_id, team_id or workflow_id can be provided"))
        ELSE IF ~a /\ ~t /\ ~w
        THEN Some(HTTPException(400, "One of agent_id, team_id or workflow_id must be provided"))
        ELSE None

\* lines 308-343: the selector checks, the lookups and the input checks, in the order of
\* the code; a lookup block is entered only for a selector that is set and a registry
\* that is neither None nor empty
validate(request, agents_, teams_, workflows_) ==
    LET a == StrTruthy(request.agent_id)
        t == StrTruthy(request.team_id)
        w == StrTruthy(request.workflow_id)
        none == [raised |-> None, agent |-> None, team |-> None, workflow |-> None,
                 workflow_input |-> [type |-> "str", text |-> ""]]
        fail(status_code, detail) == [none EXCEPT !.raised = Some(HTTPException(status_code, detail))]
    IN  IF selector_error(request) # None
        THEN [none EXCEPT !.raised = selector_error(request)]
        ELSE IF a /\ ListTruthy(agents_)
        THEN LET agent == first_with(agents_[1], "agent_id", request.agent_id[1])
             IN  IF agent = None THEN fail(404, "Agent not found")
                 ELSE IF ~StrTruthy(request.message) THEN fail(400, "Message is required")
                 ELSE [none EXCEPT !.agent = agent]
        ELSE IF t /\ ListTruthy(teams_)
        THEN LET team == first_with(teams_[1], "team_id", request.team_id[1])
             IN  IF team = None THEN fail(404, "Team not found")
                 ELSE IF ~StrTruthy(request.message) THEN fail(400, "Message is required")
                 ELSE [none EXCEPT !.team = team]
        ELSE IF w /\ ListTruthy(workflows_)
        THEN LET workflow == first_with(workflows_[1], "workflow_id", request.workflow_id[1])
             IN  IF workflow = None THEN fail(404, "Workflow not found")
                 ELSE IF ~StrTruthy(request.workflow_input) THEN fail(400, "Workflow input is required")
                 ELSE [none EXCEPT !.workflow = workflow,
                                   !.workflow_input =
                                       [type |-> json_loads(request.workflow_input[1]).type,
                                        text |-> request.workflow_input[1]]]
        ELSE none

\* `x if x else None` of a list
or_none(list) == IF list # <<>> THEN Some(list) ELSE None

\* what the handler hands back to FastAPI: a raised exception, a dict, a
\* StreamingResponse over a streamer for a unit, or None
Raised(exception) ==
    [kind |-> "raised", status |-> status_of(exception), detail |-> exception.detail,
     exception |-> exception.type, streamer |-> "", unit |-> "", args |-> None]

Returned200(kind, streamer, unit, args) ==
    [kind |-> kind, status |-> 200, detail |-> "", exception |-> "", streamer |-> streamer,
     unit |-> unit, args |-> args]

\* lines 352-356: the files are processed for an agent or a team when the request has any
process_files(request, selected, agents_) ==
    IF ~ListTruthy(request.files)
    THEN NoFiles
    ELSE IF selected.agent # None
    THEN agent_process_file(request.files[1], agents_[1][selected.agent[1]], NoFiles)
    ELSE IF selected.team # None
    THEN team_process_file(request.files[1], NoFiles)
    ELSE NoFiles

\* whether base64_images, base64_audios, base64_videos (and document_files) are bound
\* after lines 352-356: they are assigned nowhere else
files_bound(request, selected) ==
    ListTruthy(request.files) /\ (selected.agent # None \/ selected.team # None)

\* entity.monitoring = bool(monitor) on the registry entry the request selected
monitor_entry(entities, kind, monitored, monitor) ==
    IF monitored # None /\ monitored[1][1] = kind
    THEN Some([entities[1] EXCEPT ![monitored[1][2]].monitoring = monitor])
    ELSE entities

\* lines 358-446 for a request that passed the checks and whose files were processed,
\* on the registries as they are when the run is reached:
\* the calls made before the handler returns, and what it returns. A streamer is a
\* generator function and runs nothing until the response is iterated; the generator
\* expression of an older-style workflow evaluates workflow_instance.run(...) at once.
dispatch(request, selected, processed, session_id, agents_, teams_, workflows_) ==
    LET media == [message |-> request.message, session_id |-> Some(session_id),
                  user_id |-> request.user_id, images |-> or_none(processed.images),
                  audio |-> or_none(processed.audios), videos |-> or_none(processed.videos),
                  files |-> None, stream |-> request.stream]
        unbound == [calls |-> <<>>, returns |-> Raised(OtherException("UnboundLocalError"))]
    IN  IF selected.agent # None
        THEN IF ~files_bound(request, selected)
             THEN unbound
             ELSE LET unit == agents_[1][selected.agent[1]].agent_id
                  IN  IF request.stream
                      THEN [calls |-> <<>>,
                            returns |-> Returned200("stream", "agent_chat_response_streamer", unit, Some(media))]
                      ELSE [calls |-> <<Call("agent.run", media)>>,
                            returns |-> Returned200("dict", "", unit, Some(media))]
        ELSE IF selected.team # None
        THEN IF ~files_bound(request, selected)
             THEN unbound
             ELSE LET unit == teams_[1][selected.team[1]].team_id
                      args == [media EXCEPT !.files = or_none(processed.documents)]
                  IN  IF request.stream
                      THEN [calls |-> <<>>,
                            returns |-> Returned200("stream", "team_chat_response_streamer", unit, Some(args))]
                      ELSE [calls |-> <<Call("team.run", args)>>,
                            returns |-> Returned200("dict", "", unit, Some(args))]
        ELSE IF selected.workflow # None
        THEN LET workflow == workflows_[1][selected.workflow[1]]
                 unit == workflow.workflow_id
                 old == [self |-> workflow_instance_of(workflow, request),
                         workflow_input |-> selected.workflow_input, session_id |-> None,
                         user_id |-> None, stream |-> request.stream]
                 new == [self |-> workflow,
                         workflow_input |-> selected.workflow_input, session_id |-> Some(session_id),
                         user_id |-> request.user_id, stream |-> request.stream]
             IN  IF workflow.class = "Workflow"
                 THEN [calls |-> <<Call("workflow.deep_copy", [workflow_id |-> request.workflow_id,
                                                                user_id |-> request.user_id]),
                                   Call("workflow_instance.run", old)>>,
                       returns |-> IF request.stream
                                   THEN Returned200("stream", "generator expression", unit, Some(old))
                                   ELSE Returned200("dict", "", unit, Some(old))]
                 ELSE IF request.stream
                      THEN [calls |-> <<>>,
                            returns |-> Returned200("stream", "workflow_response_streamer", unit, Some(new))]
                      ELSE [calls |-> <<Call("workflow.run", new)>>,
                            returns |-> Returned200("dict", "", unit, Some(new))]
        ELSE [calls |-> <<>>, returns |-> Returned200("None", "", "", None)]

\* the POST /runs handler (lines 290-446): the calls it makes and what it returns.
\* monitored names the registry entry whose monitoring field it assigns (lines 345-350).
run_agent_or_team_or_workflow(request, agents_, teams_, workflows_, uuid) ==
    LET session_id == session_id_of(request, uuid)
        selected == validate(request, agents_, teams_, workflows_)
        none == [session_id |-> session_id, selected |-> selected, monitored |-> None,
                 calls |-> <<>>, returns |-> Returned200("None", "", "", None)]
    IN  IF selected.raised # None
        THEN [none EXCEPT !.returns = Raised(selected.raised[1])]
        ELSE LET processed == process_files(request, selected, agents_)
                 monitored == IF selected.agent # None THEN Some(<<"agent", selected.agent[1]>>)
                              ELSE IF selected.team # None THEN Some(<<"team", selected.team[1]>>)
                              ELSE IF selected.workflow # None
                                   THEN Some(<<"workflow", selected.workflow[1]>>)
                                   ELSE None
                 started == [none EXCEPT !.monitored = monitored, !.calls = processed.calls]
             IN  IF processed.raised # None
                 THEN [started EXCEPT !.returns = Raised(processed.raised[1])]
                 ELSE LET \* lines 345-350 have assigned monitoring by now
                          run == dispatch(request, selected, processed, session_id,
                                          monitor_entry(agents_, "agent", monitored, request.monitor),
                                          monitor_entry(teams_, "team", monitored, request.monitor),
                                          monitor_entry(workflows_, "workflow", monitored,
                                                        request.monitor))
                      IN  [started EXCEPT !.calls = processed.calls \o run.calls,
                                          !.returns = run.returns]

\* the form and query parameters of a POST /runs request
Request(message, stream, monitor, agent_id, team_id, workflow_id, workflow_input, session_id, files) ==
    [message |-> message, stream |-> stream, monitor |-> monitor, agent_id |-> agent_id,
     team_id |-> team_id, workflow_id |-> workflow_id, workflow_input |-> workflow_input,
     session_id |-> session_id, user_id |-> Some("u1"), files |-> files]

MaxUuids == 2

\* one POST /runs request, from its arrival to the handler's return or raise
Post(request) ==
    LET generates == request.session_id = None \/ request.session_id[1] = ""
        out == run_agent_or_team_or_workflow(request, agents, teams, workflows, uuid4(uuids + 1))
    IN  /\ generates => uuids < MaxUuids
        /\ uuids' = IF generates THEN uuids + 1 ELSE uuids
        /\ agents' = monitor_entry(agents, "agent", out.monitored, request.monitor)
        /\ teams' = monitor_entry(teams, "team", out.monitored, request.monitor)
        /\ workflows' = monitor_entry(workflows, "workflow", out.monitored, request.monitor)
        /\ http' = [op |-> "POST /runs", request |-> request, uuid |-> uuid4(uuids + 1),
                    generated |-> generates, session_id |-> out.session_id,
                    selected |-> out.selected, calls |-> out.calls, returns |-> out.returns,
                    registry |-> [agents |-> agents, teams |-> teams, workflows |-> workflows]]
        /\ UNCHANGED <<runVars, msgVars, memVars, sumVars, copyVars, ret, response_stream>>

(***************************************************************************)
(* SpecRouter: requests of every selector combination on every registry    *)
(***************************************************************************)
\* get_sync_router raises unless one of the three registries is given
Registries ==
    {r \in [agents : {None, Some(<<>>), Some(<<Agent("a1", None), Agent("a2", Some("kb"))>>)},
            teams : {None, Some(<<Team("t1")>>)},
            workflows : {None, Some(<<WorkflowOf("Workflow", "w1"), WorkflowOf("WorkflowV2", "w2")>>)}] :
        ~(r.agents = None /\ r.teams = None /\ r.workflows = None)}

\* every request carries one image, so that a refused request has an attachment it
\* must not process
RouterRequests ==
    {Request(message, stream, FALSE, agent_id, team_id, workflow_id, workflow_input, session_id,
             Some(<<UploadFile("f1", "image/png", TRUE)>>)) :
        message \in {None, Some(""), Some("hi")},
        stream \in BOOLEAN,
        agent_id \in {None, Some(""), Some("a1"), Some("zz")},
        team_id \in {None, Some("t1"), Some("zz")},
        workflow_id \in {None, Some("w1"), Some("w2"), Some("zz")},
        workflow_input \in {None, Some("jazz"), Some("{\"topic\": \"jazz\"}")},
        session_id \in {None, Some(""), Some("s1")}}

InitRouter ==
    /\ InitRunVars
    /\ InitMsgVars
    /\ InitMemVars
    /\ InitSumVars
    /\ InitCopyVars
    /\ ret = NoCall
    /\ \E r \in Registries : agents = r.agents /\ teams = r.teams /\ workflows = r.workflows
    /\ uuids = 0
    /\ http = [op |-> "none"]
    /\ response_stream = [pc |-> "none"]

\* the requests that follow the first: they tell whether a second identifier is new
LaterRequests ==
    {Request(Some("hi"), FALSE, FALSE, agent_id, None, None, None, session_id,
             Some(<<UploadFile("f1", "image/png", TRUE)>>)) :
        agent_id \in {Some("a1"), Some("zz")}, session_id \in {None, Some("s2")}}

\* The handler reads nothing of an earlier request but the registry and the identifiers
\* generated so far, so the first request of a behaviour ranges over all of
\* RouterRequests and the later ones over LaterRequests.
NextRouter ==
    \/ \E request \in RouterRequests : http.op = "none" /\ Post(request)
    \/ \E request \in LaterRequests : http.op # "none" /\ Post(request)

SpecRouter == InitRouter /\ [][NextRouter]_vars

\* the selectors a request sets: those that are neither None nor ""
SetSelectors(request) ==
    {k \in {"agent_id", "team_id", "workflow_id"} : request[k] # None /\ request[k][1] # ""}

\* the identifiers of the entities of a registry, none for a registry not given
IdsIn(registry, key) ==
    IF registry = None THEN {} ELSE {registry[1][i][key] : i \in 1..Len(registry[1])}

\* the request sets one selector and it names an entity of the registry of its kind
NamesEntity(request, registry) ==
    \/ SetSelectors(request) = {"agent_id"} /\ request.agent_id[1] \in IdsIn(registry.agents, "agent_id")
    \/ SetSelectors(request) = {"team_id"} /\ request.team_id[1] \in IdsIn(registry.teams, "team_id")
    \/ SetSelectors(request) = {"workflow_id"}
          /\ request.workflow_id[1] \in IdsIn(registry.workflows, "workflow_id")

\* the request lacks the input its selector requires: the message for an agent or a
\* team, the workflow input for a workflow
LacksInput(request) ==
    IF SetSelectors(request) = {"workflow_id"}
    THEN request.workflow_input = None \/ request.workflow_input[1] = ""
    ELSE request.message = None \/ request.message[1] = ""

RunCalls == {"agent.run", "team.run", "workflow.run", "workflow_instance.run"}

\* the handler ran a unit, or returned a stream that will
RunInvoked ==
    \/ \E i \in 1..Len(http.calls) : http.calls[i].fn \in RunCalls
    \/ http.returns.kind = "stream"

\* the handler processed an attachment
FileProcessed ==
    \E i \in 1..Len(http.calls) : http.calls[i].fn \notin RunCalls \cup {"workflow.deep_copy"}

\* C21: a request that sets none, two or three of agent_id, team_id and workflow_id is
\* answered 400, with no run invoked and no attachment processed.
C21_OneSelectorOr400 ==
    (http.op = "POST /runs" /\ Cardinality(SetSelectors(http.request)) # 1) =>
        /\ http.returns.status = 400
        /\ ~RunInvoked
        /\ ~FileProcessed

\* C21 witness: a request naming an existing agent and an existing team, with a message
\* and a file, was answered 400 and nothing was called
C21_Witness ==
    /\ http.op = "POST /runs"
    /\ http.request.agent_id = Some("a1")
    /\ http.request.team_id = Some("t1")
    /\ http.request.workflow_id = None
    /\ http.registry.agents # None
    /\ http.registry.agents # Some(<<>>)
    /\ http.registry.teams # None
    /\ http.request.message = Some("hi")
    /\ http.request.files # None
    /\ http.returns.status = 400
    /\ http.calls = <<>>

\* C22 as stated: a request that sets one selector whose identifier matches no entity of
\* the registry of its kind, a registry that was not given or is empty included, is
\* answered 404 and no run is invoked.
C22_UnknownEntity404 ==
    (http.op = "POST /runs" /\ Cardinality(SetSelectors(http.request)) = 1
        /\ ~NamesEntity(http.request, http.registry)) =>
        /\ http.returns.status = 404
        /\ ~RunInvoked

\* C23 as stated: the checks apply in the order selector count, entity, required input,
\* and the first that fails decides the status: 400, 404, 400; an unknown entity gives
\* 404 also when the input is missing; no run is invoked in any of these cases.
C23_ValidationOrder ==
    http.op = "POST /runs" =>
        IF Cardinality(SetSelectors(http.request)) # 1
        THEN http.returns.status = 400 /\ ~RunInvoked
        ELSE IF ~NamesEntity(http.request, http.registry)
        THEN http.returns.status = 404 /\ ~RunInvoked
        ELSE IF LacksInput(http.request)
        THEN http.returns.status = 400 /\ ~RunInvoked
        ELSE TRUE

\* C30: the session identifier handed to an agent, a team or a newer-style workflow is
\* the request's session_id when that is not empty, and otherwise the identifier
\* generated for this request, which is not empty and is none generated before.
C30_SessionIdHanded ==
    (http.op = "POST /runs" /\ http.returns.args # None
        /\ http.returns.streamer # "generator expression"
        /\ ~(\E i \in 1..Len(http.calls) : http.calls[i].fn = "workflow_instance.run")) =>
        LET handed == http.returns.args[1].session_id
            given == http.request.session_id
        IN  /\ handed # None
            /\ handed[1] # ""
            /\ (given # None /\ given[1] # "") => handed = given
            /\ (given = None \/ given[1] = "") =>
                  /\ handed = Some(uuid4(uuids))
                  /\ \A k \in 1..(uuids - 1) : handed[1] # uuid4(k)

\* C30 witness: the second request without a usable session_id had a run handed the
\* second generated identifier
C30_Witness ==
    /\ http.op = "POST /runs"
    /\ http.request.session_id = None
    /\ uuids = 2
    /\ http.returns.status = 200
    /\ http.returns.kind = "dict"
    /\ Len(http.calls) = 2
    /\ http.calls[2].fn = "agent.run"
    /\ http.calls[2].args.session_id = Some("uuid-2")

(***************************************************************************)
(* SpecFiles: valid requests with every list of attachments, on a router   *)
(* that has agents with and without a knowledge base, a team and both      *)
(* styles of workflow                                                      *)
(***************************************************************************)
MaxFiles == 2

\* one content type of each branch of the process_file loops, and one of none
FileTypes == {"image/png", "audio/wav", "video/mp4", "application/pdf", "application/zip"}

\* the lists of 1..n uploaded files, named f1, f2, .. by position; files is None for a
\* request without file parts
FileLists(n) ==
    UNION {{[i \in 1..k |-> UploadFile("f" \o ToString(i), f[i][1], f[i][2])] :
                f \in [1..k -> FileTypes \X BOOLEAN]} : k \in 1..n}

FullRegistry ==
    [agents |-> Some(<<Agent("a1", None), Agent("a2", Some("kb"))>>),
     teams |-> Some(<<Team("t1")>>),
     workflows |-> Some(<<WorkflowOf("Workflow", "w1"), WorkflowOf("WorkflowV2", "w2")>>)]

\* requests that pass the checks of lines 308-343: to an agent or a team with a message
\* and any files, to a workflow with an input
FileRequests ==
    {Request(Some("hi"), stream, monitor, selector[1], selector[2], None, None, Some("s1"), files) :
        stream \in BOOLEAN, monitor \in BOOLEAN,
        selector \in {<<Some("a1"), None>>, <<Some("a2"), None>>, <<None, Some("t1")>>},
        files \in {None} \cup {Some(list) : list \in FileLists(MaxFiles)}}
    \cup
    {Request(None, stream, monitor, None, None, workflow_id, workflow_input, Some("s1"), files) :
        stream \in BOOLEAN, monitor \in BOOLEAN,
        workflow_id \in {Some("w1"), Some("w2")},
        workflow_input \in {Some("jazz"), Some("{\"topic\": \"jazz\"}")},
        files \in {None, Some(<<UploadFile("f1", "image/png", TRUE)>>)}}

\* the requests that follow the first: they find the monitoring flag an earlier request
\* left on the agent
LaterFileRequests ==
    {Request(Some("hi"), FALSE, monitor, Some("a2"), None, None, None, session_id, files) :
        monitor \in BOOLEAN, session_id \in {None, Some("s1")},
        files \in {None, Some(<<UploadFile("f1", "application/pdf", TRUE)>>)}}

InitFiles ==
    /\ InitRunVars
    /\ InitMsgVars
    /\ InitMemVars
    /\ InitSumVars
    /\ InitCopyVars
    /\ ret = NoCall
    /\ agents = FullRegistry.agents
    /\ teams = FullRegistry.teams
    /\ workflows = FullRegistry.workflows
    /\ uuids = 0
    /\ http = [op |-> "none"]
    /\ response_stream = [pc |-> "none"]

NextFiles ==
    \/ \E request \in FileRequests : http.op = "none" /\ Post(request)
    \/ \E request \in LaterFileRequests : http.op # "none" /\ Post(request)

SpecFiles == InitFiles /\ [][NextFiles]_vars

\* the request passes validation: one selector, naming an entity, with its input
PassesValidation ==
    /\ http.op = "POST /runs"
    /\ Cardinality(SetSelectors(http.request)) = 1
    /\ NamesEntity(http.request, http.registry)
    /\ ~LacksInput(http.request)

\* the files of the request, none for a request without file parts
FilesOf(request) == IF request.files = None THEN <<>> ELSE request.files[1]

IsMedia(file) == file.content_type \in ImageTypes \cup AudioTypes \cup VideoTypes

\* the request is to an agent; Knowledge is that agent's knowledge base
ToAgent == SetSelectors(http.request) = {"agent_id"}

ToTeam == SetSelectors(http.request) = {"team_id"}

Knowledge ==
    LET entities == http.registry.agents[1]
    IN  entities[first_with(entities, "agent_id", http.request.agent_id[1])[1]].knowledge

\* the request has an attachment no branch of the unit's process_file takes: for an
\* agent a file that is not media when there is no knowledge base, and for both a file
\* that is neither media nor a document
Refused(file) ==
    /\ ~IsMedia(file)
    /\ \/ file.content_type \notin DocumentTypes
       \/ ToAgent /\ Knowledge = None

HasRefused ==
    /\ ToAgent \/ ToTeam
    /\ \E i \in 1..Len(FilesOf(http.request)) : Refused(FilesOf(http.request)[i])

\* how many times the selected unit's run is invoked: by the handler, or by the streamer
\* it returns when the response is iterated
RunCount ==
    Cardinality({i \in 1..Len(http.calls) : http.calls[i].fn \in RunCalls})
        + (IF http.returns.kind = "stream" /\ http.returns.streamer # "generator expression"
           THEN 1 ELSE 0)

\* C24 as stated: a request that passes validation, with any number of attachments (none
\* included; attachments of a kind the unit takes) and stream true or false, has the
\* selected unit's run invoked exactly once and is answered 200.
C24_ValidRunsOnce200 ==
    (PassesValidation /\ ~HasRefused
        /\ \A i \in 1..Len(FilesOf(http.request)) : FilesOf(http.request)[i].ok) =>
        /\ http.returns.status = 200
        /\ RunCount = 1

\* the handler read, or loaded into the knowledge base, the file of this name
IngestionAttempted(filename) ==
    \E i \in 1..Len(http.calls) :
        /\ http.calls[i].fn \in {"Reader.read", "knowledge.load_documents"}
        /\ http.calls[i].args = filename

\* the attachments before the i-th did not end the request: none of them is refused and
\* no document among them fails to be read
ReachesFile(i) ==
    \A j \in 1..(i - 1) :
        LET file == FilesOf(http.request)[j]
        IN  IsMedia(file) \/ (file.content_type \in DocumentTypes /\ file.ok)

\* C27 as stated: for every attachment to an agent that is not an image, an audio or a
\* video: without a knowledge base the request is answered 4xx and no run starts; with a
\* knowledge base the ingestion of that attachment is attempted (unless an earlier
\* attachment ended the request).
C27_FallbackIngestion ==
    (PassesValidation /\ ToAgent) =>
        \A i \in 1..Len(FilesOf(http.request)) :
            LET file == FilesOf(http.request)[i]
            IN  ~IsMedia(file) =>
                    IF Knowledge = None
                    THEN http.returns.status \in 400..499 /\ ~RunInvoked
                    ELSE ReachesFile(i) => IngestionAttempted(file.filename)

\* C27, amended: for an attachment to an agent that is not an image, an audio or a video:
\* without a knowledge base the request is answered 404, nothing is ingested and no run
\* starts; with a knowledge base an attachment of a document type is read (and, read,
\* loaded into the knowledge base) when no earlier attachment ended the request, and an
\* attachment of any other type starts no run and, when no earlier attachment ended the
\* request, is answered 400 without being ingested.
C27_FallbackByType ==
    (PassesValidation /\ ToAgent) =>
        \A i \in 1..Len(FilesOf(http.request)) :
            LET file == FilesOf(http.request)[i]
            IN  ~IsMedia(file) =>
                    IF Knowledge = None
                    THEN /\ http.returns.status = 404
                         /\ ~RunInvoked
                         /\ \A j \in 1..Len(FilesOf(http.request)) :
                                ~IngestionAttempted(FilesOf(http.request)[j].filename)
                    ELSE IF file.content_type \in DocumentTypes
                    THEN ReachesFile(i) =>
                            /\ \E k \in 1..Len(http.calls) :
                                   http.calls[k] = Call("Reader.read", file.filename)
                            /\ file.ok =>
                                   \E k \in 1..Len(http.calls) :
                                       http.calls[k] = Call("knowledge.load_documents", file.filename)
                    ELSE /\ ~RunInvoked
                         /\ ~IngestionAttempted(file.filename)
                         /\ ReachesFile(i) => http.returns.status = 400

\* C27 witness: an agent with a knowledge base was sent a PDF and then a file of a type
\* without a reader: the PDF was read and loaded, the request answered 400, no run made
C27_Witness ==
    /\ PassesValidation
    /\ http.request.agent_id = Some("a2")
    /\ Len(FilesOf(http.request)) = 2
    /\ FilesOf(http.request)[1] = UploadFile("f1", "application/pdf", TRUE)
    /\ FilesOf(http.request)[2].content_type = "application/zip"
    /\ http.calls = <<Call("Reader.read", "f1"), Call("knowledge.load_documents", "f1")>>
    /\ http.returns.status = 400
    /\ http.returns.detail = "Unsupported file type"

\* the names of the files of these types whose processing succeeds, in the order sent
RECURSIVE KeptFiles(_, _)
KeptFiles(files, types) ==
    IF files = <<>> THEN <<>>
    ELSE IF Head(files).content_type \in types /\ Head(files).ok
    THEN <<Head(files).filename>> \o KeptFiles(Tail(files), types)
    ELSE KeptFiles(Tail(files), types)

\* C28 as stated: for every list of attachments the unit takes, sent to an agent or a
\* team, the attachments whose conversion or ingestion raises are dropped, the others
\* are passed to the run in the order sent, and the run is invoked.
C28_FailuresDropped ==
    (PassesValidation /\ (ToAgent \/ ToTeam) /\ FilesOf(http.request) # <<>> /\ ~HasRefused) =>
        /\ http.returns.status = 200
        /\ RunCount = 1
        /\ http.returns.args # None
        /\ http.returns.args[1].images = or_none(KeptFiles(FilesOf(http.request), ImageTypes))
        /\ http.returns.args[1].audio = or_none(KeptFiles(FilesOf(http.request), AudioTypes))
        /\ http.returns.args[1].videos = or_none(KeptFiles(FilesOf(http.request), VideoTypes))
        /\ ToTeam => http.returns.args[1].files = or_none(KeptFiles(FilesOf(http.request), DocumentTypes))

(***************************************************************************)
(* The streamers (lines 25-120) and the generator expression of an         *)
(* older-style workflow (lines 393, 398)                                   *)
(*                                                                         *)
(* response_stream is the generator a StreamingResponse iterates: pc is    *)
(* where it stands ("created" before the first next(), "running" between a *)
(* resumption and the next yield, "yielding" with the event out in hand,   *)
(* "suspended" at a yield, "finished" once it returned or raised, "closed" *)
(* once the consumer closed it); requested counts the next() calls it made *)
(* on the unit's iterator, events are the events handed to the consumer.   *)
(* The unit yields chunks Chunk(1) .. Chunk(chunks); with fails_at = k > 0 *)
(* its k-th next() raises instead, and with run_raises the call of run     *)
(* itself raises.                                                          *)
(***************************************************************************)
Streamers ==
    {"agent_chat_response_streamer", "team_chat_response_streamer", "workflow_response_streamer",
     "generator expression"}

\* the three generator functions put run and the loop in try/except Exception; the
\* generator expression has none
has_try(streamer) == streamer # "generator expression"

\* str(e) of the failure of a unit
Failure == "boom"

Chunk(k) == [content |-> "chunk-" \o ToString(k)]

\* chunk.to_json(), json.dumps(asdict(result)) for the generator expression: the event of
\* a chunk
to_json(streamer, chunk) ==
    [class |-> CASE streamer = "agent_chat_response_streamer" -> "RunResponseEvent"
                 [] streamer = "team_chat_response_streamer" -> "TeamRunResponseEvent"
                 [] streamer = "workflow_response_streamer" -> "WorkflowRunResponseEvent"
                 [] OTHER -> "RunResponse",
     error |-> FALSE, content |-> chunk.content]

\* the event of the except branch of a streamer: RunResponse(content=str(e),
\* status=RunStatus.error), TeamRunResponseErrorEvent(content=str(e)),
\* WorkflowErrorEvent(error=str(e))
error_event(streamer, message) ==
    [class |-> CASE streamer = "agent_chat_response_streamer" -> "RunResponse"
                 [] streamer = "team_chat_response_streamer" -> "TeamRunResponseErrorEvent"
                 [] OTHER -> "WorkflowErrorEvent",
     error |-> TRUE, content |-> message]

\* the handler returns StreamingResponse(<streamer>(...)) (lines 358-405). A generator
\* function runs nothing yet; the generator expression calls workflow_instance.run(...)
\* at once, and a raise of that call leaves the handler: status 500, no stream.
new_stream(streamer, chunks, fails_at, run_raises) ==
    LET created == [pc |-> "created", streamer |-> streamer, chunks |-> chunks,
                    fails_at |-> fails_at, run_raises |-> run_raises,
                    run_called |-> ~has_try(streamer), requested |-> 0, out |-> None,
                    events |-> <<>>, failed |-> FALSE, ended |-> FALSE, escaped |-> None,
                    consumer |-> "consuming", status |-> 200]
    IN  IF ~has_try(streamer) /\ run_raises
        THEN [created EXCEPT !.pc = "finished", !.consumer = "none", !.status = 500,
                             !.escaped = Some(Failure)]
        ELSE created

\* an exception at a point of the generator: caught by the except branch, which yields
\* the error event, or leaving the generator for the transport
raise_in(s, message) ==
    IF has_try(s.streamer)
    THEN [s EXCEPT !.failed = TRUE, !.pc = "yielding", !.out = Some(error_event(s.streamer, message))]
    ELSE [s EXCEPT !.pc = "finished", !.escaped = Some(message)]

\* next(generator) by the consumer: a created streamer calls run, a generator suspended
\* at the yield of the loop goes on to the next iteration, one suspended at the yield of
\* the except branch returns
resume(s) ==
    IF s.pc = "created"
    THEN IF has_try(s.streamer)
         THEN IF s.run_raises
              THEN raise_in([s EXCEPT !.run_called = TRUE], Failure)
              ELSE [s EXCEPT !.run_called = TRUE, !.pc = "running"]
         ELSE [s EXCEPT !.pc = "running"]
    ELSE IF s.failed
    THEN [s EXCEPT !.pc = "finished", !.ended = TRUE]
    ELSE [s EXCEPT !.pc = "running"]

\* `for run_response_chunk in run_response`: one next() on the unit's iterator, and the
\* chunk serialised, the loop left (StopIteration), or the unit's exception
request_chunk(s) ==
    LET k == s.requested + 1
        asked == [s EXCEPT !.requested = k]
    IN  IF s.fails_at = k
        THEN raise_in(asked, Failure)
        ELSE IF k > s.chunks
        THEN [asked EXCEPT !.pc = "finished", !.ended = TRUE]
        ELSE [asked EXCEPT !.pc = "yielding", !.out = Some(to_json(s.streamer, Chunk(k)))]

\* yield: the event is handed to the consumer and the generator is suspended
yield(s) == [s EXCEPT !.events = Append(@, s.out[1]), !.out = None, !.pc = "suspended"]

\* a slip a streamer could make: catch the GeneratorExit of close() and go on
gen_close_ignored(s) == [s EXCEPT !.consumer = "stopped", !.pc = "running"]

\* the consumer abandons the response: the generator is closed; GeneratorExit is raised
\* at the yield, is no Exception and so passes the except branch
gen_close(s) == [s EXCEPT !.consumer = "stopped", !.pc = "closed"]

StreamUnchanged ==
    UNCHANGED <<runVars, msgVars, memVars, sumVars, copyVars, ret, agents, teams, workflows,
                uuids, http>>

OpenStream(streamer, chunks, fails_at, run_raises) ==
    /\ response_stream.pc = "none"
    /\ response_stream' = new_stream(streamer, chunks, fails_at, run_raises)
    /\ StreamUnchanged

ConsumerNext ==
    /\ response_stream.pc \in {"created", "suspended"}
    /\ response_stream.consumer = "consuming"
    /\ response_stream' = resume(response_stream)
    /\ StreamUnchanged

RequestChunk ==
    /\ response_stream.pc = "running"
    /\ response_stream' = request_chunk(response_stream)
    /\ StreamUnchanged

Yield ==
    /\ response_stream.pc = "yielding"
    /\ response_stream' = yield(response_stream)
    /\ StreamUnchanged

ConsumerStop ==
    /\ response_stream.pc \in {"created", "suspended"}
    /\ response_stream.consumer = "consuming"
    /\ response_stream' = gen_close(response_stream)
    /\ StreamUnchanged

MaxChunks == 3

InitStream ==
    /\ InitRunVars
    /\ InitMsgVars
    /\ InitMemVars
    /\ InitSumVars
    /\ InitCopyVars
    /\ InitRouterVars
    /\ ret = NoCall

NextStream ==
    \/ \E streamer \in Streamers, chunks \in 0..MaxChunks, run_raises \in BOOLEAN :
           \E fails_at \in 0..(chunks + 1) : OpenStream(streamer, chunks, fails_at, run_raises)
    \/ ConsumerNext
    \/ RequestChunk
    \/ Yield
    \/ ConsumerStop

SpecStream == InitStream /\ [][NextStream]_vars

\* the events of the first n chunks, in order
ChunkEvents(streamer, n) == [i \in 1..n |-> to_json(streamer, Chunk(i))]

\* the unit of the stream has failed: its run raised, or the next() that raises was made
UnitFailed ==
    /\ response_stream.pc # "none"
    /\ \/ response_stream.run_raises /\ response_stream.run_called
       \/ response_stream.fails_at > 0 /\ response_stream.requested >= response_stream.fails_at

\* C25 as stated: in a streaming run of any kind of unit, the older-style workflow
\* included, a failure of the unit never escapes the stream to the transport, and a
\* response consumed to its end holds the events of the chunks before the failure, in
\* order, then one error event with the failure's message, then ends.
C25_FailureContained ==
    UnitFailed =>
        /\ response_stream.escaped = None
        /\ response_stream.status = 200
        /\ response_stream.pc = "finished" =>
              /\ response_stream.ended
              /\ response_stream.events =
                     ChunkEvents(response_stream.streamer, response_stream.requested - 1)
                         \o <<error_event(response_stream.streamer, Failure)>>

\* every event handed to the consumer is the serialised chunk of its position, but for an
\* error event in the last place
EventsInOrder(s) ==
    \A i \in 1..Len(s.events) :
        \/ s.events[i] = to_json(s.streamer, Chunk(i))
        \/ i = Len(s.events) /\ s.failed /\ s.events[i] = error_event(s.streamer, Failure)

\* C26: a streamer hands the consumer one serialised event per chunk, in the order of
\* the chunks; it asks the unit for a chunk only when the events of all the chunks it
\* asked for before have been handed to the consumer, and never once the consumer has
\* stopped consuming.
C26_PullNoBuffering ==
    [][response_stream.pc # "none" =>
          /\ EventsInOrder(response_stream')
          /\ response_stream'.requested # response_stream.requested =>
                /\ response_stream'.requested = response_stream.requested + 1
                /\ Len(response_stream.events) = response_stream.requested
                /\ response_stream.consumer = "consuming"
          /\ response_stream.consumer = "stopped" => response_stream' = response_stream]_vars

\* C26 witness: the consumer took one event of a unit with three chunks and stopped; one
\* chunk was asked for
C26_Witness ==
    /\ response_stream.pc = "closed"
    /\ response_stream.consumer = "stopped"
    /\ response_stream.chunks = 3
    /\ response_stream.fails_at = 0
    /\ response_stream.requested = 1
    /\ response_stream.events = <<to_json(response_stream.streamer, Chunk(1))>>

(***************************************************************************)
(* The blocking and the suspendable variants of should_update_memory and   *)
(* update_memory (libs/agno/agno/memory/agent.py, lines 267-371), each as  *)
(* one whole call: the AgentMemory and the store afterwards, the value     *)
(* returned, and the calls made on the classifier, the manager and the db. *)
(* The collaborators' responses are the call's environment: answer is what *)
(* the classifier returns, written the rows the manager's run leaves,      *)
(* response what it returns, read_raises whether db.read_memories raises.  *)
(***************************************************************************)
Environment(answer, written, response, read_raises) ==
    [answer |-> answer, written |-> written, response |-> response, read_raises |-> read_raises]

\* the calls load_user_memories makes on the db
load_user_memories_calls(self) ==
    IF self.db # None /\ self.retrieval \in {"last_n", "first_n"}
    THEN <<Call("db.read_memories", self.retrieval)>>
    ELSE <<>>

\* lines 267-278
should_update_memory(self, input, env) ==
    LET classified == [self EXCEPT !.classifier = Some([existing_memories |-> self.memories])]
    IN  [self |-> classified, val |-> answer_is_yes(env.answer),
         trace |-> <<Call("classifier.run", input.value)>>]

\* lines 280-291
ashould_update_memory(self, input, env) ==
    LET classified == [self EXCEPT !.classifier = Some([existing_memories |-> self.memories])]
    IN  [self |-> classified, val |-> answer_is_yes(env.answer),
         trace |-> <<Call("classifier.arun", input.value)>>]

\* lines 293-332
update_memory(self, input, force, env) ==
    IF ~IsStr(input)
    THEN [self |-> self, val |-> Some(InvalidMessageContent), trace |-> <<>>]
    ELSE IF self.db = None
    THEN [self |-> self, val |-> Some(PleaseProvideDb), trace |-> <<>>]
    ELSE LET flagged == [self EXCEPT !.updating_memory = TRUE]
             checked == IF force
                        THEN [self |-> flagged, val |-> TRUE, trace |-> <<>>]
                        ELSE should_update_memory(flagged, input, env)
         IN  IF ~checked.val
             THEN [self |-> checked.self, val |-> Some(MemoryUpdateNotRequired),
                   trace |-> checked.trace]
             ELSE LET managed == [checked.self EXCEPT
                                      !.manager = Some([user_id |-> self.user_id, db |-> self.db]),
                                      !.store = env.written]
                      loaded == [managed EXCEPT
                                     !.memories = load_user_memories(managed.memories, managed.db,
                                                      managed.retrieval, managed.num_memories,
                                                      managed.store, env.read_raises)]
                  IN  [self |-> [loaded EXCEPT !.updating_memory = FALSE],
                       val |-> env.response,
                       trace |-> checked.trace \o <<Call("manager.run", input.value)>>
                                     \o load_user_memories_calls(managed)]

\* a slip aupdate_memory could make: return without reloading the memories
aupdate_memory_without_reload(self, input, force, env) ==
    IF ~IsStr(input)
    THEN [self |-> self, val |-> Some(InvalidMessageContent), trace |-> <<>>]
    ELSE IF self.db = None
    THEN [self |-> self, val |-> Some(PleaseProvideDb), trace |-> <<>>]
    ELSE LET flagged == [self EXCEPT !.updating_memory = TRUE]
             checked == IF force
                        THEN [self |-> flagged, val |-> TRUE, trace |-> <<>>]
                        ELSE ashould_update_memory(flagged, input, env)
         IN  IF ~checked.val
             THEN [self |-> checked.self, val |-> Some(MemoryUpdateNotRequired),
                   trace |-> checked.trace]
             ELSE LET managed == [checked.self EXCEPT
                                      !.manager = Some([user_id |-> self.user_id, db |-> self.db]),
                                      !.store = env.written]
                  IN  [self |-> [managed EXCEPT !.updating_memory = FALSE],
                       val |-> env.response,
                       trace |-> checked.trace \o <<Call("manager.arun", input.value)>>]

\* lines 334-371
aupdate_memory(self, input, force, env) ==
    IF ~IsStr(input)
    THEN [self |-> self, val |-> Some(InvalidMessageContent), trace |-> <<>>]
    ELSE IF self.db = None
    THEN [self |-> self, val |-> Some(PleaseProvideDb), trace |-> <<>>]
    ELSE LET flagged == [self EXCEPT !.updating_memory = TRUE]
             checked == IF force
                        THEN [self |-> flagged, val |-> TRUE, trace |-> <<>>]
                        ELSE ashould_update_memory(flagged, input, env)
         IN  IF ~checked.val
             THEN [self |-> checked.self, val |-> Some(MemoryUpdateNotRequired),
                   trace |-> checked.trace]
             ELSE LET managed == [checked.self EXCEPT
                                      !.manager = Some([user_id |-> self.user_id, db |-> self.db]),
                                      !.store = env.written]
                      loaded == [managed EXCEPT
                                     !.memories = load_user_memories(managed.memories, managed.db,
                                                      managed.retrieval, managed.num_memories,
                                                      managed.store, env.read_raises)]
                  IN  [self |-> [loaded EXCEPT !.updating_memory = FALSE],
                       val |-> env.response,
                       trace |-> checked.trace \o <<Call("manager.arun", input.value)>>
                                     \o load_user_memories_calls(managed)]

(***************************************************************************)
(* SpecEquiv: one call of both variants on the same AgentMemory            *)
(***************************************************************************)
\* the AgentMemory and its store, as the record the variants work on
Self ==
    [db |-> db, store |-> store, user_id |-> user_id, retrieval |-> retrieval,
     num_memories |-> num_memories, memories |-> memories, classifier |-> classifier,
     manager |-> manager, updating_memory |-> updating_memory]

\* the variables take the state a call left
Becomes(self) ==
    /\ db' = self.db
    /\ store' = self.store
    /\ user_id' = self.user_id
    /\ retrieval' = self.retrieval
    /\ num_memories' = self.num_memories
    /\ memories' = self.memories
    /\ classifier' = self.classifier
    /\ manager' = self.manager
    /\ updating_memory' = self.updating_memory

EquivStores == {<<>>, <<[memory |-> [memory |-> "likes jazz"]]>>,
                <<[memory |-> [topic |-> "music"]], [memory |-> [memory |-> "lives in Paris"]]>>}

EquivAnswers == {None, Some(<<>>), Some(<<"Y", "e", "s">>), Some(<<"n", "o">>)}

InitEquiv ==
    /\ InitRunVars
    /\ InitMsgVars
    /\ InitSumVars
    /\ InitCopyVars
    /\ InitRouterVars
    /\ db \in {None, Some("db")}
    /\ store \in IF db = None THEN {<<>>} ELSE {<<>>, <<[memory |-> [memory |-> "old"]]>>}
    /\ user_id = Some("u1")
    /\ retrieval \in {"last_n", "first_n", "semantic"}
    /\ num_memories \in {None, Some(1)}
    /\ memories \in {None, Some(<<[memory |-> "old"]>>)}
    /\ classifier \in {None, Some([existing_memories |-> None])}
    /\ manager \in {None, Some([user_id |-> None, db |-> None])}
    /\ updating_memory \in BOOLEAN
    /\ pc = [t \in Tasks |-> "idle"]
    /\ frame = [t \in Tasks |-> NoFrame]
    /\ ret = NoCall

\* update_memory and aupdate_memory are called on the same AgentMemory with the same
\* arguments and the same responses of the collaborators
UpdateMemoryBoth(input, force, env) ==
    /\ ret = NoCall
    /\ ret' = [op |-> "update_memory", input |-> input, force |-> force, env |-> env,
               before |-> Self,
               blocking |-> update_memory(Self, input, force, env),
               suspendable |-> aupdate_memory(Self, input, force, env)]
    /\ Becomes(update_memory(Self, input, force, env).self)
    /\ UNCHANGED <<runVars, msgVars, sumVars, copyVars, routerVars, pc, frame>>

ShouldUpdateMemoryBoth(input, env) ==
    /\ ret = NoCall
    /\ ret' = [op |-> "should_update_memory", input |-> input, force |-> FALSE, env |-> env,
               before |-> Self,
               blocking |-> should_update_memory(Self, input, env),
               suspendable |-> ashould_update_memory(Self, input, env)]
    /\ Becomes(should_update_memory(Self, input, env).self)
    /\ UNCHANGED <<runVars, msgVars, sumVars, copyVars, routerVars, pc, frame>>

NextEquiv ==
    \/ \E input \in InputArgs, force \in BOOLEAN, answer \in EquivAnswers, written \in EquivStores,
          response \in ManagerResponses, read_raises \in BOOLEAN :
           UpdateMemoryBoth(input, force, Environment(answer, written, response, read_raises))
    \/ \E answer \in EquivAnswers :
           ShouldUpdateMemoryBoth([type |-> "str", value |-> "I like jazz"],
                                  Environment(answer, <<>>, None, FALSE))

SpecEquiv == InitEquiv /\ [][NextEquiv]_vars

\* the blocking method a call of the suspendable variant corresponds to: run for arun
BlockingName(fn) ==
    CASE fn = "classifier.arun" -> "classifier.run"
      [] fn = "manager.arun" -> "manager.run"
      [] OTHER -> fn

\* C29: on the same AgentMemory, input, force flag and responses of the classifier, the
\* manager and the store, update_memory and aupdate_memory, and should_update_memory and
\* ashould_update_memory, make the same calls on the collaborators in the same order
\* (arun for run), return the same value and leave the same AgentMemory and store.
C29_VariantsEquivalent ==
    ret.op \in {"update_memory", "should_update_memory"} =>
        /\ ret.suspendable.self = ret.blocking.self
        /\ ret.suspendable.val = ret.blocking.val
        /\ Len(ret.suspendable.trace) = Len(ret.blocking.trace)
        /\ \A i \in 1..Len(ret.blocking.trace) :
               /\ BlockingName(ret.suspendable.trace[i].fn) = ret.blocking.trace[i].fn
               /\ ret.suspendable.trace[i].args = ret.blocking.trace[i].args
               /\ ret.suspendable.trace[i].fn # ret.blocking.trace[i].fn =>
                      ret.blocking.trace[i].fn \in {"classifier.run", "manager.run"}

\* C29 witness: both variants classified the input, ran the manager and reloaded the
\* memories, which changed
C29_Witness ==
    /\ ret.op = "update_memory"
    /\ ~ret.force
    /\ Len(ret.blocking.trace) = 3
    /\ ret.blocking.trace[1].fn = "classifier.run"
    /\ ret.suspendable.trace[1].fn = "classifier.arun"
    /\ ret.suspendable.trace[2].fn = "manager.arun"
    /\ ret.blocking.trace[3].fn = "db.read_memories"
    /\ ret.blocking.self.memories # ret.before.memories
    /\ ret.blocking.self.memories = memories
    /\ ret.blocking.val = Some("Memory added")

(***************************************************************************)
(* SpecAddRun: add_run on an AgentMemory that holds messages, a summary    *)
(* and memories                                                            *)
(***************************************************************************)
InitAddRun ==
    /\ InitRunVars
    /\ update_system_message_on_change = FALSE
    /\ clean = TRUE
    /\ messages \in {<<>>, <<Msg(DefaultSystemRole, "s1", FALSE, <<>>), Msg("user", "hi", FALSE, <<>>)>>}
    /\ summary \in {None, Some(SessionSummary(<<>>))}
    /\ summarizer = None
    /\ db = None
    /\ store = <<>>
    /\ user_id = None
    /\ retrieval = "last_n"
    /\ num_memories = None
    /\ memories \in {None, Some(<<>>), Some(<<[memory |-> "likes jazz"]>>)}
    /\ classifier = None
    /\ manager = None
    /\ updating_memory = FALSE
    /\ pc = [t \in Tasks |-> "idle"]
    /\ frame = [t \in Tasks |-> NoFrame]
    /\ InitCopyVars
    /\ InitRouterVars
    /\ ret = NoCall

NextAddRun == \E agent_run \in AddRunArgs : AddRun(agent_run)

SpecAddRun == InitAddRun /\ [][NextAddRun]_vars

\* C32: an add_run call changes nothing but the entry it targets. With the identifier
\* of a stored run it leaves the length of the list, puts the argument at the position
\* of that run and leaves every other run where it was; with a new identifier it leaves
\* the runs stored and puts the argument after them; with an argument that has no
\* result, or a result without a run identifier, it leaves the list as it was; in all
\* cases messages, summary and memories are as before.
C32_AddRunFrame ==
    [][ret'.op = "add_run" =>
          LET agent_run == ret'.agent_run
              identified == agent_run.response # None /\ StrTruthy(agent_run.response[1].run_id)
              hits == IF identified THEN IndicesWithRunId(runs, agent_run.response[1].run_id) ELSE {}
          IN  /\ ret'.before = runs
              /\ messages' = messages
              /\ summary' = summary
              /\ memories' = memories
              /\ ~identified => runs' = runs
              /\ (identified /\ hits # {}) =>
                    /\ Len(runs') = Len(runs)
                    /\ \E i \in hits :
                          /\ runs'[i] = agent_run
                          /\ \A j \in 1..Len(runs) : j # i => runs'[j] = runs[j]
              /\ (identified /\ hits = {}) =>
                    /\ Len(runs') = Len(runs) + 1
                    /\ runs'[Len(runs')] = agent_run
                    /\ \A j \in 1..Len(runs) : runs'[j] = runs[j]]_vars

\* C32 witness: add_run replaced the first of three stored runs by a run of other
\* content, the two runs after it stayed, beside messages, a summary and memories
C32_Witness ==
    /\ ret.op = "add_run"
    /\ ret.agent_run.response # None
    /\ Len(ret.before) = 3
    /\ Len(runs) = 3
    /\ IndicesWithRunId(ret.before, ret.agent_run.response[1].run_id) = {1}
    /\ runs[1] = ret.agent_run
    /\ runs[1] # ret.before[1]
    /\ runs[2] = ret.before[2]
    /\ runs[3] = ret.before[3]
    /\ messages # <<>>
    /\ summary # None
    /\ memories = Some(<<[memory |-> "likes jazz"]>>)

\* caller t's call, running or returned, has force=True, a str input and a db
Forced(t) == IsStr(frame[t].input) /\ db # None /\ frame[t].force

\* C34: an update_memory call with force=True, a text input and a db never calls the
\* classifier, calls the manager at most once while it runs and has called it exactly
\* once when it returns, whatever the classifier's answers to other calls are.
C34_ForceSkipsClassifier ==
    \A t \in Tasks :
        Forced(t) =>
            /\ pc[t] # "classify"
            /\ Count(t, "classifier.run") = 0
            /\ frame[t].answer = None
            /\ Count(t, "manager.run") <= 1
            /\ pc[t] \in {"load", "return"} => Count(t, "manager.run") = 1
            /\ Returned(t) =>
                  /\ Count(t, "manager.run") = 1
                  /\ ret.val = frame[t].response

\* C34 witness: a forced call returned the manager's response after a call that the
\* classifier had answered "no" left a classifier behind
C34_Witness ==
    /\ Forced("t1")
    /\ Returned("t1")
    /\ classifier # None
    /\ frame["t1"].trace = <<"manager.run", "load_user_memories">>
    /\ ret.val = Some("Memory added")
    /\ store # <<>>

(***************************************************************************)
(* SpecOrder: update_memory calls of one caller on a memory whose user_id  *)
(* is reassigned between calls                                             *)
(***************************************************************************)
UserIds == {Some("u1"), Some("u2")}

\* memory.user_id = <id>, between two calls
SetUserId(id) ==
    /\ Idle
    /\ user_id' = id
    /\ ret' = [op |-> "user_id", before |-> user_id]
    /\ UNCHANGED <<runVars, msgVars, sumVars, copyVars, routerVars, db, store, retrieval,
                   num_memories, memories, classifier, manager, updating_memory, pc, frame>>

InitOrder ==
    /\ InitRunVars
    /\ InitMsgVars
    /\ InitSumVars
    /\ InitCopyVars
    /\ InitRouterVars
    /\ db = Some("db")
    /\ store = <<>>
    /\ user_id = Some("u1")
    /\ retrieval \in {"last_n", "first_n", "semantic"}
    /\ num_memories \in {None, Some(1)}
    /\ memories = None
    /\ classifier = None
    /\ manager = None
    /\ updating_memory = FALSE
    /\ pc = [t \in Tasks |-> "idle"]
    /\ frame = [t \in Tasks |-> NoFrame]
    /\ ret = NoCall

NextOrder ==
    \/ \E t \in SyncTasks, force \in BOOLEAN : UpdateMemoryCall(t, SessionInput, force)
    \/ \E t \in SyncTasks, classifier_response \in SessionAnswers :
          ShouldUpdateMemory(t, classifier_response)
    \/ \E t \in SyncTasks, written \in SessionStores : ManagerRun(t, written, Some("Memory added"))
    \/ \E t \in SyncTasks, read_raises \in BOOLEAN : ReloadMemories(t, read_raises)
    \/ \E t \in SyncTasks : UpdateMemoryReturn(t)
    \/ \E id \in UserIds : SetUserId(id)

SpecOrder == InitOrder /\ [][NextOrder]_vars

\* the calls of the writing path of caller t's call, in the order of the code
WritingPath(t) ==
    (IF frame[t].force THEN <<>> ELSE <<"classifier.run">>) \o <<"manager.run", "load_user_memories">>

\* C33 as stated: on the writing path of update_memory the flag is set, the input
\* classified (unless forced), the manager bound to the current user_id and db and run,
\* the memories reloaded, the flag cleared and the manager's response returned, in this
\* order; at return memories is what a read of the store after the manager's write
\* gives; the manager of a call is bound to the user_id of the time of that call.
C33_WritePathOrder ==
    \A t \in SyncTasks :
        Count(t, "manager.run") > 0 =>
            /\ frame[t].trace = SubSeq(WritingPath(t), 1, Len(frame[t].trace))
            /\ pc[t] # "idle" => updating_memory
            /\ (pc[t] # "idle" \/ Returned(t)) => manager = Some([user_id |-> user_id, db |-> db])
            /\ Returned(t) =>
                  /\ frame[t].trace = WritingPath(t)
                  /\ ~updating_memory
                  /\ ret.val = frame[t].response
                  /\ retrieval \in {"last_n", "first_n"}
                  /\ memories =
                         Some(validated_rows(read_memories(store, num_memories,
                                  IF retrieval = "first_n" THEN "asc" ELSE "desc")))

(***************************************************************************)
(* aupdate_memory (lines 334-371) and aupdate_summary (lines 386-397) as   *)
(* coroutines on one event loop: a step is the code from one await to the  *)
(* next, and another coroutine runs only while this one is suspended in    *)
(* classifier.arun, manager.arun or summarizer.arun. pc[t] names the await *)
(* caller t is suspended in.                                               *)
(***************************************************************************)
Suspended == {"classifier.arun", "manager.arun", "summarizer.arun"}

\* lines 361-367, up to the await: the manager is built or rebound and its arun begun
begin_manager_arun(t) ==
    /\ manager' = Some([user_id |-> user_id, db |-> db])
    /\ pc' = [pc EXCEPT ![t] = "manager.arun"]

\* aupdate_memory from the call to its first await: the early returns, the flag, and
\* with force the manager, else ashould_update_memory up to classifier.arun
AUpdateMemoryCall(t, input, force) ==
    /\ pc[t] = "idle"
    /\ frame' = [frame EXCEPT ![t] =
                    [input |-> input, force |-> force, answer |-> None, response |-> None,
                     trace |-> IF IsStr(input) /\ db # None
                               THEN <<IF force THEN "manager.arun" ELSE "classifier.arun">>
                               ELSE <<>>,
                     before |-> memories,
                     should_update_memory |-> IF IsStr(input) /\ db # None /\ force
                                              THEN Some(TRUE) ELSE None]]
    /\ IF ~IsStr(input)
       THEN /\ ret' = [op |-> "aupdate_memory", task |-> t, val |-> Some(InvalidMessageContent)]
            /\ UNCHANGED <<updating_memory, pc, classifier, manager>>
       ELSE IF db = None
            THEN /\ ret' = [op |-> "aupdate_memory", task |-> t, val |-> Some(PleaseProvideDb)]
                 /\ UNCHANGED <<updating_memory, pc, classifier, manager>>
            ELSE /\ updating_memory' = TRUE
                 /\ ret' = [op |-> "aupdate_memory", task |-> t, val |-> None, running |-> TRUE]
                 /\ IF force
                    THEN begin_manager_arun(t) /\ UNCHANGED classifier
                    ELSE /\ classifier' = Some([existing_memories |-> memories])
                         /\ pc' = [pc EXCEPT ![t] = "classifier.arun"]
                         /\ UNCHANGED manager
    /\ UNCHANGED <<runVars, msgVars, cfgVars, sumVars, copyVars, routerVars, store, memories>>

\* classifier.arun returns: the rest of ashould_update_memory, then the return of lines
\* 358-359 or the manager's arun begun
AClassified(t, classifier_response) ==
    /\ pc[t] = "classifier.arun"
    /\ frame' = [frame EXCEPT ![t].answer = Some(classifier_response),
                              ![t].should_update_memory = Some(answer_is_yes(classifier_response)),
                              ![t].trace = IF answer_is_yes(classifier_response)
                                           THEN Append(@, "manager.arun") ELSE @]
    /\ IF answer_is_yes(classifier_response)
       THEN /\ begin_manager_arun(t)
            /\ ret' = [op |-> "aupdate_memory", task |-> t, val |-> None, running |-> TRUE]
       ELSE /\ pc' = [pc EXCEPT ![t] = "idle"]
            /\ ret' = [op |-> "aupdate_memory", task |-> t, val |-> Some(MemoryUpdateNotRequired)]
            /\ UNCHANGED manager
    /\ UNCHANGED <<runVars, msgVars, cfgVars, sumVars, copyVars, routerVars, store, memories,
                   classifier, updating_memory>>

\* a repair of the flag that the code does not make: leave it up while another call is
\* suspended
AManaged_waits_for_others(t, written, response, read_raises) ==
    /\ pc[t] = "manager.arun"
    /\ store' = written
    /\ memories' = load_user_memories(memories, db, retrieval, num_memories, written, read_raises)
    /\ updating_memory' = (\E u \in Tasks \ {t} : pc[u] \in Suspended)
    /\ frame' = [frame EXCEPT ![t].response = response, ![t].trace = Append(@, "load_user_memories")]
    /\ pc' = [pc EXCEPT ![t] = "idle"]
    /\ ret' = [op |-> "aupdate_memory", task |-> t, val |-> response]
    /\ UNCHANGED <<runVars, msgVars, cfgVars, sumVars, copyVars, routerVars, classifier, manager>>

\* manager.arun returns, having left the rows written: lines 368-371, the memories
\* reloaded, the flag cleared, the response returned
AManaged(t, written, response, read_raises) ==
    /\ pc[t] = "manager.arun"
    /\ store' = written
    /\ memories' = load_user_memories(memories, db, retrieval, num_memories, written, read_raises)
    /\ updating_memory' = FALSE
    /\ frame' = [frame EXCEPT ![t].response = response, ![t].trace = Append(@, "load_user_memories")]
    /\ pc' = [pc EXCEPT ![t] = "idle"]
    /\ ret' = [op |-> "aupdate_memory", task |-> t, val |-> response]
    /\ UNCHANGED <<runVars, msgVars, cfgVars, sumVars, copyVars, routerVars, classifier, manager>>

\* aupdate_summary up to its await (lines 390-396): the flag, the summarizer, the message
\* pairs handed to summarizer.arun
AUpdateSummaryCall(t) ==
    /\ pc[t] = "idle"
    /\ updating_memory' = TRUE
    /\ summarizer' = IF summarizer = None THEN Some("MemorySummarizer") ELSE summarizer
    /\ frame' = [frame EXCEPT ![t] = [NoFrame EXCEPT !.trace = <<"summarizer.arun">>,
                                                     !.before = memories]]
    /\ pc' = [pc EXCEPT ![t] = "summarizer.arun"]
    /\ ret' = [op |-> "aupdate_summary", task |-> t, val |-> None, running |-> TRUE]
    /\ UNCHANGED <<runVars, msgVars, cfgVars, copyVars, routerVars, store, memories, classifier,
                   manager, summary>>

\* summarizer.arun returns: lines 396-397
ASummarized(t, gives) ==
    /\ pc[t] = "summarizer.arun"
    /\ summary' = update_summary(runs, gives)
    /\ updating_memory' = FALSE
    /\ pc' = [pc EXCEPT ![t] = "idle"]
    /\ ret' = [op |-> "aupdate_summary", task |-> t, val |-> update_summary(runs, gives)]
    /\ UNCHANGED <<runVars, msgVars, cfgVars, copyVars, routerVars, store, memories, classifier,
                   manager, summarizer, frame>>

(***************************************************************************)
(* SpecAsync: two callers of aupdate_memory and aupdate_summary on one     *)
(* AgentMemory                                                             *)
(***************************************************************************)
NextAsync ==
    \/ \E t \in Tasks, force \in BOOLEAN : AUpdateMemoryCall(t, SessionInput, force)
    \/ \E t \in Tasks, classifier_response \in SessionAnswers : AClassified(t, classifier_response)
    \/ \E t \in Tasks, written \in SessionStores, read_raises \in BOOLEAN :
          AManaged(t, written, Some("Memory added"), read_raises)
    \/ \E t \in Tasks : AUpdateSummaryCall(t)
    \/ \E t \in Tasks, gives \in BOOLEAN : ASummarized(t, gives)

SpecAsync == InitSession /\ [][NextAsync]_vars

ToWorkflow == PassesValidation /\ SetSelectors(http.request) = {"workflow_id"}

Registered == workflows[1][http.selected.workflow[1]]

RegisteredBefore == http.registry.workflows[1][http.selected.workflow[1]]

\* the objects on which the handler called run, or on which the streamer it returned
\* will call it
RunTargets ==
    {http.calls[i].args.self : i \in {j \in 1..Len(http.calls) : http.calls[j].fn \in RunCalls}}
        \cup (IF http.returns.kind = "stream" /\ http.returns.streamer # "generator expression"
              THEN {http.returns.args[1].self} ELSE {})

\* C31: a request to an older-style workflow runs one object, a copy made for the
\* request, with the requested workflow_id, the request's user_id and no session name;
\* the registered workflow is not run and keeps its user_id and session_name. A request
\* to a newer-style workflow runs the registered object itself.
C31_FreshCopyPerRequest ==
    ToWorkflow =>
        /\ Registered.user_id = RegisteredBefore.user_id
        /\ Registered.session_name = RegisteredBefore.session_name
        /\ Registered.object = "registered"
        /\ \E target \in RunTargets : RunTargets = {target}
        /\ \A target \in RunTargets :
               IF Registered.class = "Workflow"
               THEN /\ target.object = "copy"
                    /\ target.workflow_id = http.request.workflow_id[1]
                    /\ target.user_id = http.request.user_id
                    /\ target.session_name = None
                    /\ \E i \in 1..Len(http.calls) :
                           /\ http.calls[i].fn = "workflow.deep_copy"
                           /\ \A j \in 1..Len(http.calls) : http.calls[j].fn \in RunCalls => i < j
               ELSE /\ target = Registered
                    /\ \A i \in 1..Len(http.calls) : http.calls[i].fn # "workflow.deep_copy"

\* C31 witness: a streaming request to the older-style workflow ran a copy that has the
\* request's user_id and no session name, and the registered workflow kept its own
C31_Witness ==
    /\ ToWorkflow
    /\ http.request.workflow_id = Some("w1")
    /\ http.request.stream
    /\ http.returns.status = 200
    /\ \E target \in RunTargets :
           /\ target.object = "copy"
           /\ target.user_id = Some("u1")
           /\ target.session_name = None
    /\ Registered.user_id = Some("owner")
    /\ Registered.session_name = Some("main")

(***************************************************************************)
(* SpecThreads: two POST /runs requests handled at the same time.          *)
(* run_agent_or_team_or_workflow is a `def` endpoint, which FastAPI runs   *)
(* in a thread pool: two handlers are two threads over the same            *)
(* registries, and either may be preempted between any two statements.     *)
(* The handler is cut where it reads or writes a registered object.        *)
(***************************************************************************)
Handlers == {"h1", "h2"}

\* the thread of a handler thread that has not received its request
NoHandler == [pc |-> "none", request |-> None, selected |-> None, self |-> None, returns |-> None]

\* lines 345-350: the registry entry `agent`, `team` or `workflow` is bound to
monitored_of(selected) ==
    IF selected.agent # None THEN Some(<<"agent", selected.agent[1]>>)
    ELSE IF selected.team # None THEN Some(<<"team", selected.team[1]>>)
    ELSE IF selected.workflow # None THEN Some(<<"workflow", selected.workflow[1]>>)
    ELSE None

\* the object whose run method lines 358-446 (or the streamer, on iteration) call: the
\* registered agent, team or newer-style workflow by reference, or the copy of an
\* older-style workflow made when the run is reached
self_of(request, selected, workflows_) ==
    LET entry == monitored_of(selected)[1]
    IN  IF entry[1] = "workflow" /\ workflows_[1][entry[2]].class = "Workflow"
        THEN [object |-> "copy", copy |-> workflow_instance_of(workflows_[1][entry[2]], request)]
        ELSE [object |-> "registered", kind |-> entry[1], index |-> entry[2]]

\* self.monitoring, read now on the object a run executes on
monitoring_of(self) ==
    IF self.object = "copy" THEN self.copy.monitoring
    ELSE IF self.kind = "agent" THEN agents[1][self.index].monitoring
    ELSE IF self.kind = "team" THEN teams[1][self.index].monitoring
    ELSE workflows[1][self.index].monitoring

ThreadsUnchanged == UNCHANGED <<runVars, msgVars, memVars, sumVars, copyVars, ret, uuids, response_stream>>

\* lines 303-343: the request arrives on a handler thread and is checked against the
\* registries; a refused request raises here
Receive(h, request) ==
    LET selected == validate(request, agents, teams, workflows)
    IN  /\ http.handler[h].pc = "none"
        /\ http' = [http EXCEPT !.handler[h] =
                        IF selected.raised # None
                        THEN [NoHandler EXCEPT !.pc = "returned", !.request = Some(request),
                                               !.selected = Some(selected),
                                               !.returns = Some(Raised(selected.raised[1]))]
                        ELSE [NoHandler EXCEPT !.pc = "validated", !.request = Some(request),
                                               !.selected = Some(selected)]]
        /\ UNCHANGED <<agents, teams, workflows>>
        /\ ThreadsUnchanged

\* lines 345-350: agent.monitoring = bool(monitor), or the team's or the workflow's,
\* on the registered object
AssignMonitoring(h) ==
    LET thread == http.handler[h]
        monitored == monitored_of(thread.selected[1])
    IN  /\ thread.pc = "validated"
        /\ agents' = monitor_entry(agents, "agent", monitored, thread.request[1].monitor)
        /\ teams' = monitor_entry(teams, "team", monitored, thread.request[1].monitor)
        /\ workflows' = monitor_entry(workflows, "workflow", monitored, thread.request[1].monitor)
        /\ http' = [http EXCEPT !.handler[h].pc = "assigned"]
        /\ ThreadsUnchanged

\* lines 352-446: the files are processed and the run is reached. Without stream the
\* handler calls run itself; for an older-style workflow it copies the registered
\* workflow now and calls run on the copy, with stream too; the other streaming
\* responses are returned before anything runs.
Dispatch(h) ==
    LET thread == http.handler[h]
        request == thread.request[1]
        selected == thread.selected[1]
        processed == process_files(request, selected, agents)
        run == dispatch(request, selected, processed, request.session_id[1], agents, teams, workflows)
        self == self_of(request, selected, workflows)
    IN  /\ thread.pc = "assigned"
        /\ http' = [http EXCEPT !.handler[h] =
                        IF processed.raised # None
                        THEN [thread EXCEPT !.pc = "returned",
                                           !.returns = Some(Raised(processed.raised[1]))]
                        ELSE IF run.returns.kind = "raised"
                        THEN [thread EXCEPT !.pc = "returned", !.returns = Some(run.returns)]
                        ELSE IF request.stream /\ self.object = "registered"
                        THEN [thread EXCEPT !.pc = "responded", !.returns = Some(run.returns)]
                        ELSE [thread EXCEPT !.pc = "running", !.self = Some(self),
                                           !.returns = Some(run.returns)]]
        /\ UNCHANGED <<agents, teams, workflows>>
        /\ ThreadsUnchanged

\* lines 25-120: the StreamingResponse is iterated and the streamer calls run on the
\* registered object it was given
Iterate(h) ==
    LET thread == http.handler[h]
    IN  /\ thread.pc = "responded"
        /\ http' = [http EXCEPT !.handler[h].pc = "running",
                                !.handler[h].self =
                                    Some(self_of(thread.request[1], thread.selected[1], workflows))]
        /\ UNCHANGED <<agents, teams, workflows>>
        /\ ThreadsUnchanged

\* the run comes to its end and the response is complete
RunReturns(h) ==
    /\ http.handler[h].pc = "running"
    /\ http' = [http EXCEPT !.handler[h].pc = "returned"]
    /\ UNCHANGED <<agents, teams, workflows>>
    /\ ThreadsUnchanged

\* requests to every kind of unit, with either monitor flag, and one to no unit
ThreadRequests ==
    {Request(Some("hi"), stream, monitor, selector[1], selector[2], None, None, Some("s1"),
             Some(<<UploadFile("f1", "image/png", TRUE)>>)) :
        stream \in BOOLEAN, monitor \in BOOLEAN,
        selector \in {<<Some("a1"), None>>, <<None, Some("t1")>>}}
    \cup
    {Request(None, stream, monitor, None, None, workflow_id, Some("jazz"), Some("s1"), None) :
        stream \in BOOLEAN, monitor \in BOOLEAN, workflow_id \in {Some("w1"), Some("w2")}}
    \cup
    {Request(Some("hi"), FALSE, TRUE, Some("zz"), None, None, None, Some("s1"), None)}

InitThreads ==
    /\ InitRunVars
    /\ InitMsgVars
    /\ InitMemVars
    /\ InitSumVars
    /\ InitCopyVars
    /\ ret = NoCall
    /\ agents = FullRegistry.agents
    /\ teams = FullRegistry.teams
    /\ workflows = FullRegistry.workflows
    /\ uuids = 0
    /\ http = [op |-> "threads", handler |-> [h \in Handlers |-> NoHandler]]
    /\ response_stream = [pc |-> "none"]

NextThreads ==
    \E h \in Handlers :
        \/ \E request \in ThreadRequests : Receive(h, request)
        \/ AssignMonitoring(h)
        \/ Dispatch(h)
        \/ Iterate(h)
        \/ RunReturns(h)

SpecThreads == InitThreads /\ [][NextThreads]_vars

\* the handler threads whose run is executing
Running == {h \in Handlers : http.handler[h].pc = "running"}

\* C35: under every interleaving of two requests handled at the same time, a run that is
\* executing reads, on the object it runs on, the monitoring flag of its own request:
\* no handler leaves on a registered object anything the other request's run can see.
C35_OwnMonitoring ==
    \A h \in Running :
        monitoring_of(http.handler[h].self[1]) = http.handler[h].request[1].monitor

====
